---------------------------- MODULE Spec2Model ----------------------------
(*************************************************************************)
(* Kazi - SCP Deal Intelligence Platform (src/main.py and its modules).   *)
(* The storage tables, the request handlers of src/main.py and the       *)
(* payload schemas of src/schemas.py as a state machine.  Each handler   *)
(* is one action: it reads the tables, writes them as the handler's      *)
(* commit does, and leaves the HTTP response in `resp`.                  *)
(*                                                                       *)
(* Encoding of Python values:                                            *)
(*   - an Optional[int] that is None / a NULL integer column is `None`;  *)
(*     integer inputs are drawn from sets that do not contain it;        *)
(*   - an Optional[str] that is None / a NULL text column is `NoneStr`;  *)
(*   - a partial-update payload is [vals, nulls]: `vals` maps the fields *)
(*     sent with a value to that value, `nulls` is the set of fields     *)
(*     sent as an explicit null.  A field in neither was not sent.       *)
(*************************************************************************)
EXTENDS Integers, FiniteSets, Sequences, TLC

\* ---------------------------------------------------------------- bounds
\* Inserts the create handlers may attempt in all (the id sequences of the
\* tables are not advanced further than this beyond the seeded rows).
MaxRows == 2

\* Minutes the clock is followed for: past the expiry of a token issued
\* at the start.
MaxTime == 32

\* Requests in flight at once.
MaxRequests == 3

\* ------------------------------------------------------- program constants
None == -1
NoneStr == "None"
ACCESS_TOKEN_EXPIRE_MINUTES == 30

\* HTTP status codes used by the handlers.
HTTP_200_OK == 200
HTTP_400_BAD_REQUEST == 400
HTTP_401_UNAUTHORIZED == 401
HTTP_403_FORBIDDEN == 403
HTTP_404_NOT_FOUND == 404
HTTP_422_UNPROCESSABLE == 422
HTTP_500_SERVER_ERROR == 500

VARIABLES
    users,          \* table users:          id -> User row
    organizations,  \* table organizations:  id -> Organization row
    companies,      \* table companies:      id -> Company row
    mandates,       \* table mandates:       id -> Mandate row
    deals,          \* table deals:          id -> Deal row
    tasks,          \* table tasks:          id -> Task row
    documents,      \* table documents:      id -> Document row
    ic_workflows,   \* table ic_workflows:   id -> ICWorkflow row
    intelligence,   \* table intelligence:   id -> Intelligence row
    seq,            \* the id sequence of each table (last value handed out)
    now,            \* the clock, in minutes
    resp,           \* the response to the last request
    proc            \* the server process: start-up phase, environment,
                    \* and the storage session of each request in flight

tables == <<users, organizations, companies, mandates, deals, tasks,
            documents, ic_workflows, intelligence>>
vars == <<users, organizations, companies, mandates, deals, tasks,
          documents, ic_workflows, intelligence, seq, now, resp, proc>>

\* ------------------------------------------------------------ small helpers
\* A table with row r stored under key id.
Insert(table, id, r) == [k \in DOMAIN table \cup {id} |-> IF k = id THEN r ELSE table[k]]

\* Faulty variant of Remove: the delete is not flushed.
Remove_NotFlushed(table, id) == table

\* A table without the row id.
Remove(table, id) == [k \in DOMAIN table \ {id} |-> table[k]]

\* The rows of a table as a set.
Rows(table) == {table[k] : k \in DOMAIN table}

\* utc_now(): the default_factory of every created_at / updated_at column.
utc_now == now


\* -------------------------------------------------------------- payloads
\* The fields a request body sent (with a value or as null).
Sent(p) == DOMAIN p.vals \cup p.nulls

\* The value of field f of a body, or d when f was not sent or sent as null
\* (an Optional field whose default is None, or a field with a default).
Get(p, f, d) == IF f \in DOMAIN p.vals THEN p.vals[f] ELSE d

\* A body that sent nothing.
EmptyBody == [vals |-> [f \in {} |-> None], nulls |-> {}]

\* A body that sent the fields of the record r, none of them null.
Body(r) == [vals |-> r, nulls |-> {}]

\* A body that sent the fields of r and the fields of ns as explicit nulls.
BodyN(r, ns) == [vals |-> r, nulls |-> ns]

\* model_dump(exclude_unset=True) of an all-Optional update schema with
\* the given fields: the fields that were sent, others are ignored.
dump_exclude_unset(p, fields) ==
    [vals  |-> [f \in DOMAIN p.vals \cap fields |-> p.vals[f]],
     nulls |-> p.nulls \cap fields]

\* The null of the column f.
IntColumns == {"id", "mandate_id", "company_id", "owner_id", "organization_id",
               "quality_score", "created_by_id", "deal_id", "due_date",
               "version", "created_at", "updated_at", "ingested_at"}
NullOf(f) == IF f \in IntColumns THEN None ELSE NoneStr

\* Faulty variant of setattr_all: model_dump() without exclude_unset, so a field
\* that was not sent is reset to None.
setattr_all_ResetUnset(row, update_data) ==
    [f \in DOMAIN row |->
        IF f \in DOMAIN update_data.vals THEN update_data.vals[f]
        ELSE IF f \in {"id", "created_at", "updated_at", "deal_id",
                       "organization_id", "approver", "approved"}
             THEN row[f]
        ELSE NullOf(f)]

\* Faulty variant of setattr_all: sending the value a field already has clears it.
setattr_all_Toggle(row, update_data) ==
    [f \in DOMAIN row |->
        IF f \in DOMAIN update_data.vals
        THEN IF f \in {"description", "notes"} /\ row[f] = update_data.vals[f]
             THEN NullOf(f) ELSE update_data.vals[f]
        ELSE IF f \in update_data.nulls THEN NullOf(f)
        ELSE row[f]]

\* for key, value in update_data.items(): setattr(row, key, value)
setattr_all(row, update_data) ==
    [f \in DOMAIN row |->
        IF f \in DOMAIN update_data.vals THEN update_data.vals[f]
        ELSE IF f \in update_data.nulls THEN NullOf(f)
        ELSE row[f]]

\* ------------------------------------------------------------- responses
NoBody == {}
Response(op, actor, id, payload, status, body) ==
    [op |-> op, actor |-> actor, id |-> id, payload |-> payload,
     status |-> status, body |-> body]

\* raise HTTPException(status_code=...): the response of a failed request.
HTTPException(op, actor, id, payload, status) ==
    Response(op, actor, id, payload, status, NoBody)

\* ----------------------------------------------------------- auth (auth.py)
\* The signing key of the running process and a key it does not have.
SECRET_KEY == "secret"
OtherKey == "forged"

\* get_password_hash: a salted one-way hash.
get_password_hash(password) == <<"$2b$", password>>

\* verify_password: false on any other password and on a malformed hash.
verify_password(password, hashed) == hashed = <<"$2b$", password>>

\* create_access_token: a signed token with the subject and expiry instant.
create_access_token(data, expires_delta) ==
    [sub |-> data.sub, exp |-> now + expires_delta, key |-> SECRET_KEY]

\* The user row whose username is name, as a set (empty when there is none).
UserByName(name) == {u \in DOMAIN users : users[u].username = name}

\* Faulty variant of get_current_user: the expiry instant is not compared.
get_current_user_NoExpiry(token) ==
    IF token.key # SECRET_KEY \/ UserByName(token.sub) = {}
    THEN [status |-> HTTP_401_UNAUTHORIZED, user |-> None]
    ELSE LET u == CHOOSE u \in UserByName(token.sub) : TRUE IN
         IF ~users[u].is_active
         THEN [status |-> HTTP_403_FORBIDDEN, user |-> u]
         ELSE [status |-> HTTP_200_OK, user |-> u]

\* get_current_user: the user the bearer token names.  401 when the token
\* does not verify, has expired or names no stored user; 403 when the user
\* is inactive.
get_current_user(token) ==
    IF token.key # SECRET_KEY \/ now >= token.exp \/ UserByName(token.sub) = {}
    THEN [status |-> HTTP_401_UNAUTHORIZED, user |-> None]
    ELSE LET u == CHOOSE u \in UserByName(token.sub) : TRUE IN
         IF ~users[u].is_active
         THEN [status |-> HTTP_403_FORBIDDEN, user |-> u]
         ELSE [status |-> HTTP_200_OK, user |-> u]

\* Faulty variant of get_current_active_admin: the role is not tested.
get_current_active_admin_AnyRole(token) == get_current_user(token)

\* get_current_active_admin: get_current_user, then 403 unless the role is
\* Owner or Admin.
get_current_active_admin(token) ==
    LET a == get_current_user(token) IN
    IF a.status # HTTP_200_OK THEN a
    ELSE IF users[a.user].role \notin {"Owner", "Admin"}
         THEN [status |-> HTTP_403_FORBIDDEN, user |-> a.user]
         ELSE a

\* The bearer token a client holds after logging in as `name` just now.
BearerOf(name) ==
    create_access_token([sub |-> name], ACCESS_TOKEN_EXPIRE_MINUTES)

\* ------------------------------------------------------------ seeded rows
\* No handler can create the first user (create_user needs an admin) and
\* none can deactivate one, so the tables start with an installation's
\* rows: two organizations, a company, and users of each kind.
SeedUser(id, name, email, password, role, org, active) ==
    [id |-> id, username |-> name, email |-> email,
     hashed_password |-> get_password_hash(password),
     full_name |-> NoneStr, role |-> role, organization_id |-> org,
     is_active |-> active, created_at |-> 0]

SeedUsers ==
    [i \in 1..6 |->
        CASE i = 1 -> SeedUser(1, "alice", "alice@kazi.io", "pw-alice", "Owner", 1, TRUE)
          [] i = 2 -> SeedUser(2, "bob", "bob@kazi.io", "pw-bob", "Member", 2, TRUE)
          [] i = 3 -> SeedUser(3, "carol", "carol@kazi.io", "pw-carol", "Member", None, TRUE)
          [] i = 4 -> SeedUser(4, "dave", "dave@kazi.io", "pw-dave", "Viewer", None, TRUE)
          [] i = 5 -> SeedUser(5, "erin", "erin@kazi.io", "pw-erin", "Admin", 1, TRUE)
          [] i = 6 -> SeedUser(6, "frank", "frank@kazi.io", "pw-frank", "Member", 2, FALSE)]

SeedOrganizations ==
    [i \in 1..2 |->
        [id |-> i, name |-> IF i = 1 THEN "Acme" ELSE "Beta",
         type |-> "SCP", created_at |-> 0]]

SeedCompanies ==
    [i \in 1..1 |->
        [id |-> 1, name |-> "TargetCo", website |-> NoneStr,
         location |-> NoneStr, sector |-> "Tech", size_estimate |-> NoneStr,
         owner_type |-> NoneStr, created_at |-> 0]]

EmptyTable == [k \in {} |-> None]

\* The id sequences after the seed.
SeedSeq ==
    [users |-> Cardinality(DOMAIN SeedUsers),
     organizations |-> Cardinality(DOMAIN SeedOrganizations),
     companies |-> Cardinality(DOMAIN SeedCompanies),
     mandates |-> 0, deals |-> 0, tasks |-> 0, documents |-> 0,
     ic_workflows |-> 0, intelligence |-> 0]

\* Ids handed out since the seed, over all tables.
Inserts ==
    (seq.users - SeedSeq.users) + (seq.organizations - SeedSeq.organizations)
    + (seq.companies - SeedSeq.companies) + seq.mandates + seq.deals
    + seq.tasks + seq.documents + seq.ic_workflows + seq.intelligence

InsertsLeft == Inserts < MaxRows

\* Requests that can be in flight at once.
RequestIds == 1..MaxRequests

\* get_session has not been entered for the request.
NoSession == [pc |-> "idle", log |-> <<>>, raised |-> FALSE]

\* A process that has started with the signing key set and serves requests.
Serving(env) ==
    [pc |-> "serving", env |-> env, sessions |-> [r \in RequestIds |-> NoSession]]

Init ==
    /\ users = SeedUsers
    /\ organizations = SeedOrganizations
    /\ companies = SeedCompanies
    /\ mandates = EmptyTable
    /\ deals = EmptyTable
    /\ tasks = EmptyTable
    /\ documents = EmptyTable
    /\ ic_workflows = EmptyTable
    /\ intelligence = EmptyTable
    /\ seq = SeedSeq
    /\ now = 0
    /\ resp = Response("startup", None, None, EmptyBody, HTTP_200_OK, NoBody)
    /\ proc = Serving([SECRET_KEY |-> SECRET_KEY])

\* A request whose bearer token get_current_user refuses: the handler does
\* not run.
auth_failure(token) ==
    /\ get_current_user(token).status # HTTP_200_OK
    /\ resp' = HTTPException("auth", get_current_user(token).user, None,
                             EmptyBody, get_current_user(token).status)
    /\ UNCHANGED <<tables, seq, now, proc>>

\* Foreign keys: a reference is NULL or names a row of the table.
FK(ref, table) == ref = None \/ ref \in DOMAIN table

\* ---------------------------------------------------------------- Mandates
\* MandateCreate: type and confidence_score are required and constrained
\* by a pattern; the other fields are Optional with default None.
MandateCreate_valid(p) ==
    /\ {"type", "confidence_score"} \subseteq DOMAIN p.vals
    /\ p.vals["type"] \in {"buy-side", "sell-side", "trading"}
    /\ p.vals["confidence_score"] \in {"A", "B", "C"}

\* MandateCreate(...).model_dump(): every field of the schema.
MandateCreate_dump(p) ==
    [type |-> p.vals["type"],
     scope |-> Get(p, "scope", NoneStr),
     timeline |-> Get(p, "timeline", NoneStr),
     fee_model |-> Get(p, "fee_model", NoneStr),
     exclusivity |-> Get(p, "exclusivity", NoneStr),
     confidence_score |-> p.vals["confidence_score"],
     proof_documents |-> Get(p, "proof_documents", NoneStr),
     company_id |-> Get(p, "company_id", None)]

\* Mandate(**mandate.model_dump(), organization_id=..., created_by_id=...)
Mandate(d, id, organization_id, created_by_id) ==
    [id |-> id, type |-> d.type, scope |-> d.scope, timeline |-> d.timeline,
     fee_model |-> d.fee_model, exclusivity |-> d.exclusivity,
     confidence_score |-> d.confidence_score,
     proof_documents |-> d.proof_documents,
     organization_id |-> organization_id, company_id |-> d.company_id,
     created_by_id |-> created_by_id, created_at |-> utc_now]

create_mandate(token, mandate) ==
    /\ get_current_user(token).status = HTTP_200_OK
    /\ LET current_user == users[get_current_user(token).user] IN
       IF ~MandateCreate_valid(mandate)
       THEN /\ resp' = HTTPException("create_mandate", current_user.id, None,
                                     mandate, HTTP_422_UNPROCESSABLE)
            /\ UNCHANGED <<tables, seq, now, proc>>
       ELSE /\ InsertsLeft
            /\ LET id == seq.mandates + 1
                   db_mandate == Mandate(MandateCreate_dump(mandate), id,
                                         current_user.organization_id,
                                         current_user.id)
               IN  /\ seq' = [seq EXCEPT !.mandates = id]
                   /\ IF FK(db_mandate.company_id, companies)
                      THEN /\ mandates' = Insert(mandates, id, db_mandate)
                           /\ resp' = Response("create_mandate", current_user.id,
                                               id, mandate, HTTP_200_OK,
                                               {db_mandate})
                      ELSE /\ mandates' = mandates
                           /\ resp' = HTTPException("create_mandate",
                                          current_user.id, None, mandate,
                                          HTTP_500_SERVER_ERROR)
                   /\ UNCHANGED <<users, organizations, companies, deals,
                                  tasks, documents, ic_workflows,
                                  intelligence, now, proc>>

\* select(Mandate).where(Mandate.organization_id == current_user.organization_id)
\* (a None on the right compiles to IS NULL)
list_mandates(token) ==
    /\ get_current_user(token).status = HTTP_200_OK
    /\ LET current_user == users[get_current_user(token).user] IN
       /\ resp' = Response("list_mandates", current_user.id, None, EmptyBody,
                     HTTP_200_OK,
                     {m \in Rows(mandates) :
                         m.organization_id = current_user.organization_id})
       /\ UNCHANGED <<tables, seq, now, proc>>

get_mandate(token, mandate_id) ==
    /\ get_current_user(token).status = HTTP_200_OK
    /\ LET current_user == users[get_current_user(token).user] IN
       /\ IF \/ mandate_id \notin DOMAIN mandates
             \/ mandates[mandate_id].organization_id # current_user.organization_id
          THEN resp' = HTTPException("get_mandate", current_user.id, mandate_id,
                                     EmptyBody, HTTP_404_NOT_FOUND)
          ELSE resp' = Response("get_mandate", current_user.id, mandate_id,
                                EmptyBody, HTTP_200_OK, {mandates[mandate_id]})
       /\ UNCHANGED <<tables, seq, now, proc>>

\* ------------------------------------------------------------------- Deals
\* DealCreate: company_name and description are required strings, stage
\* has a default, quality_score is None or in 0..100.
DealCreate_valid(p) ==
    /\ {"company_name", "description"} \subseteq DOMAIN p.vals
    /\ "stage" \notin p.nulls
    /\ "quality_score" \in DOMAIN p.vals =>
          (p.vals["quality_score"] >= 0 /\ p.vals["quality_score"] <= 100)

\* DealCreate(...).model_dump(): the seven fields of the schema; a field
\* the schema does not declare is dropped.
DealCreate_dump(p) ==
    [company_name |-> p.vals["company_name"],
     description |-> p.vals["description"],
     stage |-> Get(p, "stage", "Origination"),
     type |-> Get(p, "type", NoneStr),
     mandate_id |-> Get(p, "mandate_id", None),
     company_id |-> Get(p, "company_id", None),
     quality_score |-> Get(p, "quality_score", None)]

\* Deal(**deal.model_dump(), owner_id=..., organization_id=...)
Deal(d, id, owner_id, organization_id) ==
    [id |-> id, company_name |-> d.company_name,
     description |-> d.description, stage |-> d.stage, type |-> d.type,
     status |-> "Pending", mandate_id |-> d.mandate_id,
     company_id |-> d.company_id, owner_id |-> owner_id,
     organization_id |-> organization_id,
     quality_score |-> d.quality_score, created_at |-> utc_now]

\* Faulty variant of DealUpdateFields: the schema declares organization_id.
DealUpdateFields_WithOrganization ==
    {"company_name", "description", "stage", "type", "status",
     "quality_score", "organization_id"}

\* DealUpdate: every field Optional; quality_score, when a number, in 0..100.
DealUpdateFields == {"company_name", "description", "stage", "type", "status",
                     "quality_score"}
\* Faulty variant of DealUpdate_valid: quality_score has no upper limit.
DealUpdate_valid_NoMaximum(p) ==
    "quality_score" \in DOMAIN p.vals => p.vals["quality_score"] >= 0

DealUpdate_valid(p) ==
    "quality_score" \in DOMAIN p.vals =>
        (p.vals["quality_score"] >= 0 /\ p.vals["quality_score"] <= 100)

\* Columns of deals declared without Optional: NOT NULL.
DealNotNull == {"company_name", "description", "stage", "status"}

create_deal(token, deal) ==
    /\ get_current_user(token).status = HTTP_200_OK
    /\ LET current_user == users[get_current_user(token).user] IN
       IF ~DealCreate_valid(deal)
       THEN /\ resp' = HTTPException("create_deal", current_user.id, None,
                                     deal, HTTP_422_UNPROCESSABLE)
            /\ UNCHANGED <<tables, seq, now, proc>>
       ELSE /\ InsertsLeft
            /\ LET id == seq.deals + 1
                   db_deal == Deal(DealCreate_dump(deal), id, current_user.id,
                                   current_user.organization_id)
               IN  /\ seq' = [seq EXCEPT !.deals = id]
                   /\ IF /\ FK(db_deal.mandate_id, mandates)
                         /\ FK(db_deal.company_id, companies)
                      THEN /\ deals' = Insert(deals, id, db_deal)
                           /\ resp' = Response("create_deal", current_user.id,
                                               id, deal, HTTP_200_OK, {db_deal})
                      ELSE /\ deals' = deals
                           /\ resp' = HTTPException("create_deal",
                                          current_user.id, None, deal,
                                          HTTP_500_SERVER_ERROR)
                   /\ UNCHANGED <<users, organizations, companies, mandates,
                                  tasks, documents, ic_workflows,
                                  intelligence, now, proc>>

\* Faulty variant of list_deals: the where clause is forgotten.
list_deals_Unfiltered(token) ==
    /\ get_current_user(token).status = HTTP_200_OK
    /\ resp' = Response("list_deals", get_current_user(token).user, None,
                  EmptyBody, HTTP_200_OK, Rows(deals))
    /\ UNCHANGED <<tables, seq, now, proc>>

list_deals(token) ==
    /\ get_current_user(token).status = HTTP_200_OK
    /\ LET current_user == users[get_current_user(token).user] IN
       /\ resp' = Response("list_deals", current_user.id, None, EmptyBody,
                     HTTP_200_OK,
                     {d \in Rows(deals) :
                         d.organization_id = current_user.organization_id})
       /\ UNCHANGED <<tables, seq, now, proc>>

\* Faulty variant of DealOutOfScope: the organization comparison is forgotten.
DealOutOfScope_NoOrgCheck(deal_id, current_user) ==
    deal_id \notin DOMAIN deals

\* if not deal or deal.organization_id != current_user.organization_id
DealOutOfScope(deal_id, current_user) ==
    \/ deal_id \notin DOMAIN deals
    \/ deals[deal_id].organization_id # current_user.organization_id

get_deal(token, deal_id) ==
    /\ get_current_user(token).status = HTTP_200_OK
    /\ LET current_user == users[get_current_user(token).user] IN
       /\ IF DealOutOfScope(deal_id, current_user)
          THEN resp' = HTTPException("get_deal", current_user.id, deal_id,
                                     EmptyBody, HTTP_404_NOT_FOUND)
          ELSE resp' = Response("get_deal", current_user.id, deal_id,
                                EmptyBody, HTTP_200_OK, {deals[deal_id]})
       /\ UNCHANGED <<tables, seq, now, proc>>

\* Faulty variant of update_deal: the fields are applied and committed
\* before the organization is compared.
update_deal_ApplyThenCheck(token, deal_id, deal_update) ==
    /\ get_current_user(token).status = HTTP_200_OK
    /\ LET current_user == users[get_current_user(token).user] IN
       IF ~DealUpdate_valid(deal_update)
       THEN /\ resp' = HTTPException("update_deal", current_user.id, deal_id,
                                     deal_update, HTTP_422_UNPROCESSABLE)
            /\ UNCHANGED <<tables, seq, now, proc>>
       ELSE IF deal_id \notin DOMAIN deals
       THEN /\ resp' = HTTPException("update_deal", current_user.id, deal_id,
                                     deal_update, HTTP_404_NOT_FOUND)
            /\ UNCHANGED <<tables, seq, now, proc>>
       ELSE LET update_data == dump_exclude_unset(deal_update, DealUpdateFields)
                db_deal == setattr_all(deals[deal_id], update_data)
            IN  /\ deals' = [deals EXCEPT ![deal_id] = db_deal]
                /\ resp' = IF DealOutOfScope(deal_id, current_user)
                           THEN HTTPException("update_deal", current_user.id,
                                    deal_id, deal_update, HTTP_404_NOT_FOUND)
                           ELSE Response("update_deal", current_user.id,
                                    deal_id, deal_update, HTTP_200_OK,
                                    {db_deal})
                /\ UNCHANGED <<users, organizations, companies, mandates,
                               tasks, documents, ic_workflows, intelligence,
                               seq, now, proc>>

update_deal(token, deal_id, deal_update) ==
    /\ get_current_user(token).status = HTTP_200_OK
    /\ LET current_user == users[get_current_user(token).user] IN
       IF ~DealUpdate_valid(deal_update)
       THEN /\ resp' = HTTPException("update_deal", current_user.id, deal_id,
                                     deal_update, HTTP_422_UNPROCESSABLE)
            /\ UNCHANGED <<tables, seq, now, proc>>
       ELSE IF DealOutOfScope(deal_id, current_user)
       THEN /\ resp' = HTTPException("update_deal", current_user.id, deal_id,
                                     deal_update, HTTP_404_NOT_FOUND)
            /\ UNCHANGED <<tables, seq, now, proc>>
       ELSE LET update_data == dump_exclude_unset(deal_update, DealUpdateFields)
                db_deal == setattr_all(deals[deal_id], update_data)
            IN  /\ IF update_data.nulls \cap DealNotNull = {}
                   THEN /\ deals' = [deals EXCEPT ![deal_id] = db_deal]
                        /\ resp' = Response("update_deal", current_user.id,
                                      deal_id, deal_update, HTTP_200_OK,
                                      {db_deal})
                   ELSE /\ deals' = deals
                        /\ resp' = HTTPException("update_deal", current_user.id,
                                      deal_id, deal_update,
                                      HTTP_500_SERVER_ERROR)
                /\ UNCHANGED <<users, organizations, companies, mandates,
                               tasks, documents, ic_workflows, intelligence,
                               seq, now, proc>>

\* The rows of a child table that reference the deal.
ChildrenOf(table, deal_id) == {k \in DOMAIN table : table[k].deal_id = deal_id}

\* session.delete(db_deal) with the relationships Deal.tasks, .documents,
\* .intelligence, .ic_workflows declared without a delete cascade: the
\* flush sets the children's deal_id to NULL.
Orphan(table, deal_id) ==
    [k \in DOMAIN table |->
        IF table[k].deal_id = deal_id
        THEN [table[k] EXCEPT !.deal_id = None] ELSE table[k]]

delete_deal(token, deal_id) ==
    /\ get_current_user(token).status = HTTP_200_OK
    /\ LET current_user == users[get_current_user(token).user] IN
       IF DealOutOfScope(deal_id, current_user)
       THEN /\ resp' = HTTPException("delete_deal", current_user.id, deal_id,
                                     EmptyBody, HTTP_404_NOT_FOUND)
            /\ UNCHANGED <<tables, seq, now, proc>>
       ELSE IF ChildrenOf(ic_workflows, deal_id) # {}
       \* ic_workflows.deal_id is NOT NULL: the flush fails, get_session
       \* rolls back.
       THEN /\ resp' = HTTPException("delete_deal", current_user.id, deal_id,
                                     EmptyBody, HTTP_500_SERVER_ERROR)
            /\ UNCHANGED <<tables, seq, now, proc>>
       ELSE /\ deals' = Remove(deals, deal_id)
            /\ tasks' = Orphan(tasks, deal_id)
            /\ documents' = Orphan(documents, deal_id)
            /\ intelligence' = Orphan(intelligence, deal_id)
            /\ resp' = Response("delete_deal", current_user.id, deal_id,
                                EmptyBody, HTTP_200_OK, NoBody)
            /\ UNCHANGED <<users, organizations, companies, mandates,
                           ic_workflows, seq, now, proc>>

\* ----------------------------------------------------------------- IC memo
\* session.get(Model, id) if id else None: the row as a set, empty for None.
GetIfSet(table, id) ==
    IF id # None /\ id # 0 /\ id \in DOMAIN table THEN {table[id]} ELSE {}

\* An f-string: the literal text and the interpolated value.
Interpolate(text, value) == <<text, value>>

\* Faulty variant of ICMemo: business_model is taken from company_name.
ICMemo_WrongField(deal, mandate, company) ==
    [thesis_fit |-> Interpolate("Based on mandate scope: ",
                        IF mandate # {} THEN (CHOOSE m \in mandate : TRUE).scope
                        ELSE "N/A"),
     market |-> Interpolate("Sector: ",
                    IF company # {} THEN (CHOOSE c \in company : TRUE).sector
                    ELSE deal.company_name),
     business_model |-> deal.company_name,
     financial_snapshot |-> "High-level metrics to be populated from data room",
     risks |-> "Key risks to be identified during diligence",
     valuation |-> "Valuation range to be determined",
     diligence_plan |-> Interpolate("Next steps for ", deal.stage)]

\* ICMemo(thesis_fit=..., market=..., business_model=deal.description, ...)
ICMemo(deal, mandate, company) ==
    [thesis_fit |-> Interpolate("Based on mandate scope: ",
                        IF mandate # {} THEN (CHOOSE m \in mandate : TRUE).scope
                        ELSE "N/A"),
     market |-> Interpolate("Sector: ",
                    IF company # {} THEN (CHOOSE c \in company : TRUE).sector
                    ELSE deal.company_name),
     business_model |-> deal.description,
     financial_snapshot |-> "High-level metrics to be populated from data room",
     risks |-> "Key risks to be identified during diligence",
     valuation |-> "Valuation range to be determined",
     diligence_plan |-> Interpolate("Next steps for ", deal.stage)]

generate_ic_memo(token, deal_id) ==
    /\ get_current_user(token).status = HTTP_200_OK
    /\ LET current_user == users[get_current_user(token).user] IN
       IF DealOutOfScope(deal_id, current_user)
       THEN resp' = HTTPException("generate_ic_memo", current_user.id, deal_id,
                                  EmptyBody, HTTP_404_NOT_FOUND)
       ELSE LET deal == deals[deal_id]
                mandate == GetIfSet(mandates, deal.mandate_id)
                company == GetIfSet(companies, deal.company_id)
            IN  resp' = Response("generate_ic_memo", current_user.id, deal_id,
                                 EmptyBody, HTTP_200_OK,
                                 {ICMemo(deal, mandate, company)})
    /\ UNCHANGED <<tables, seq, now, proc>>

\* ------------------------------------------------------------------- Tasks
TaskStatuses == {"Pending", "In Progress", "Completed"}

\* TaskCreate: description required; status defaults to Pending and must
\* match the pattern; owner_id and due_date are Optional.
TaskCreate_valid(p) ==
    /\ "description" \in DOMAIN p.vals
    /\ "status" \notin p.nulls
    /\ "status" \in DOMAIN p.vals => p.vals["status"] \in TaskStatuses

TaskCreate_dump(p) ==
    [description |-> p.vals["description"],
     owner_id |-> Get(p, "owner_id", None),
     due_date |-> Get(p, "due_date", None),
     status |-> Get(p, "status", "Pending")]

\* Task(**task.model_dump(), deal_id=deal_id)
Task(d, id, deal_id) ==
    [id |-> id, description |-> d.description, owner_id |-> d.owner_id,
     deal_id |-> deal_id, due_date |-> d.due_date, status |-> d.status,
     created_at |-> utc_now]

TaskUpdateFields == {"description", "owner_id", "due_date", "status"}
TaskUpdate_valid(p) ==
    "status" \in DOMAIN p.vals => p.vals["status"] \in TaskStatuses
TaskNotNull == {"description", "status"}

create_task(token, deal_id, task) ==
    /\ get_current_user(token).status = HTTP_200_OK
    /\ LET current_user == users[get_current_user(token).user] IN
       IF ~TaskCreate_valid(task)
       THEN /\ resp' = HTTPException("create_task", current_user.id, deal_id,
                                     task, HTTP_422_UNPROCESSABLE)
            /\ UNCHANGED <<tables, seq, now, proc>>
       ELSE IF DealOutOfScope(deal_id, current_user)
       THEN /\ resp' = HTTPException("create_task", current_user.id, deal_id,
                                     task, HTTP_404_NOT_FOUND)
            /\ UNCHANGED <<tables, seq, now, proc>>
       ELSE /\ InsertsLeft
            /\ LET id == seq.tasks + 1
                   db_task == Task(TaskCreate_dump(task), id, deal_id)
               IN  /\ seq' = [seq EXCEPT !.tasks = id]
                   /\ IF FK(db_task.owner_id, users)
                      THEN /\ tasks' = Insert(tasks, id, db_task)
                           /\ resp' = Response("create_task", current_user.id,
                                         deal_id, task, HTTP_200_OK, {db_task})
                      ELSE /\ tasks' = tasks
                           /\ resp' = HTTPException("create_task",
                                         current_user.id, deal_id, task,
                                         HTTP_500_SERVER_ERROR)
                   /\ UNCHANGED <<users, organizations, companies, mandates,
                                  deals, documents, ic_workflows,
                                  intelligence, now, proc>>

list_tasks(token, deal_id) ==
    /\ get_current_user(token).status = HTTP_200_OK
    /\ LET current_user == users[get_current_user(token).user] IN
       /\ IF DealOutOfScope(deal_id, current_user)
          THEN resp' = HTTPException("list_tasks", current_user.id, deal_id,
                                     EmptyBody, HTTP_404_NOT_FOUND)
          ELSE resp' = Response("list_tasks", current_user.id, deal_id,
                          EmptyBody, HTTP_200_OK,
                          {t \in Rows(tasks) : t.deal_id = deal_id})
       /\ UNCHANGED <<tables, seq, now, proc>>

update_task(token, task_id, task_update) ==
    /\ get_current_user(token).status = HTTP_200_OK
    /\ LET current_user == users[get_current_user(token).user] IN
       IF ~TaskUpdate_valid(task_update)
       THEN /\ resp' = HTTPException("update_task", current_user.id, task_id,
                                     task_update, HTTP_422_UNPROCESSABLE)
            /\ UNCHANGED <<tables, seq, now, proc>>
       ELSE IF \/ task_id \notin DOMAIN tasks
               \/ DealOutOfScope(tasks[task_id].deal_id, current_user)
       THEN /\ resp' = HTTPException("update_task", current_user.id, task_id,
                                     task_update, HTTP_404_NOT_FOUND)
            /\ UNCHANGED <<tables, seq, now, proc>>
       ELSE LET update_data == dump_exclude_unset(task_update, TaskUpdateFields)
                db_task == setattr_all(tasks[task_id], update_data)
            IN  /\ IF /\ update_data.nulls \cap TaskNotNull = {}
                      /\ FK(db_task.owner_id, users)
                   THEN /\ tasks' = [tasks EXCEPT ![task_id] = db_task]
                        /\ resp' = Response("update_task", current_user.id,
                                      task_id, task_update, HTTP_200_OK,
                                      {db_task})
                   ELSE /\ tasks' = tasks
                        /\ resp' = HTTPException("update_task", current_user.id,
                                      task_id, task_update,
                                      HTTP_500_SERVER_ERROR)
                /\ UNCHANGED <<users, organizations, companies, mandates,
                               deals, documents, ic_workflows, intelligence,
                               seq, now, proc>>

\* --------------------------------------------------------------- Documents
\* DocumentCreate: name and path required; version defaults to 1, >= 1.
DocumentCreate_valid(p) ==
    /\ {"name", "path"} \subseteq DOMAIN p.vals
    /\ "version" \notin p.nulls
    /\ "version" \in DOMAIN p.vals => p.vals["version"] >= 1

DocumentCreate_dump(p) ==
    [name |-> p.vals["name"], path |-> p.vals["path"],
     version |-> Get(p, "version", 1),
     permissions |-> Get(p, "permissions", NoneStr)]

\* Document(**document.model_dump(), deal_id=deal_id)
Document(d, id, deal_id) ==
    [id |-> id, name |-> d.name, path |-> d.path, version |-> d.version,
     deal_id |-> deal_id, permissions |-> d.permissions,
     created_at |-> utc_now]

create_document(token, deal_id, document) ==
    /\ get_current_user(token).status = HTTP_200_OK
    /\ LET current_user == users[get_current_user(token).user] IN
       IF ~DocumentCreate_valid(document)
       THEN /\ resp' = HTTPException("create_document", current_user.id,
                                     deal_id, document, HTTP_422_UNPROCESSABLE)
            /\ UNCHANGED <<tables, seq, now, proc>>
       ELSE IF DealOutOfScope(deal_id, current_user)
       THEN /\ resp' = HTTPException("create_document", current_user.id,
                                     deal_id, document, HTTP_404_NOT_FOUND)
            /\ UNCHANGED <<tables, seq, now, proc>>
       ELSE /\ InsertsLeft
            /\ LET id == seq.documents + 1
                   db_document == Document(DocumentCreate_dump(document), id,
                                           deal_id)
               IN  /\ seq' = [seq EXCEPT !.documents = id]
                   /\ documents' = Insert(documents, id, db_document)
                   /\ resp' = Response("create_document", current_user.id,
                                 deal_id, document, HTTP_200_OK, {db_document})
                   /\ UNCHANGED <<users, organizations, companies, mandates,
                                  deals, tasks, ic_workflows, intelligence,
                                  now, proc>>

list_documents(token, deal_id) ==
    /\ get_current_user(token).status = HTTP_200_OK
    /\ LET current_user == users[get_current_user(token).user] IN
       /\ IF DealOutOfScope(deal_id, current_user)
          THEN resp' = HTTPException("list_documents", current_user.id,
                                     deal_id, EmptyBody, HTTP_404_NOT_FOUND)
          ELSE resp' = Response("list_documents", current_user.id, deal_id,
                          EmptyBody, HTTP_200_OK,
                          {d \in Rows(documents) : d.deal_id = deal_id})
       /\ UNCHANGED <<tables, seq, now, proc>>

\* ------------------------------------------------------------ IC Workflows
\* ICWorkflowCreate: deal_id and approver required; approved defaults to
\* False; notes is Optional.
ICWorkflowCreate_valid(p) ==
    /\ {"deal_id", "approver"} \subseteq DOMAIN p.vals
    /\ "approved" \notin p.nulls

ICWorkflowCreate_dump(p) ==
    [deal_id |-> p.vals["deal_id"], approver |-> p.vals["approver"],
     notes |-> Get(p, "notes", NoneStr),
     approved |-> Get(p, "approved", FALSE)]

\* ICWorkflow(**workflow.model_dump())
ICWorkflow(d, id) ==
    [id |-> id, deal_id |-> d.deal_id, approver |-> d.approver,
     notes |-> d.notes, approved |-> d.approved, updated_at |-> utc_now]

ICWorkflowUpdateFields == {"notes", "approved"}
ICWorkflowNotNull == {"approved"}

create_ic_workflow(token, workflow) ==
    /\ get_current_user(token).status = HTTP_200_OK
    /\ LET current_user == users[get_current_user(token).user] IN
       IF ~ICWorkflowCreate_valid(workflow)
       THEN /\ resp' = HTTPException("create_ic_workflow", current_user.id,
                                     None, workflow, HTTP_422_UNPROCESSABLE)
            /\ UNCHANGED <<tables, seq, now, proc>>
       ELSE IF DealOutOfScope(workflow.vals["deal_id"], current_user)
       THEN /\ resp' = HTTPException("create_ic_workflow", current_user.id,
                                     None, workflow, HTTP_404_NOT_FOUND)
            /\ UNCHANGED <<tables, seq, now, proc>>
       ELSE /\ InsertsLeft
            /\ LET id == seq.ic_workflows + 1
                   db_workflow == ICWorkflow(ICWorkflowCreate_dump(workflow), id)
               IN  /\ seq' = [seq EXCEPT !.ic_workflows = id]
                   /\ ic_workflows' = Insert(ic_workflows, id, db_workflow)
                   /\ resp' = Response("create_ic_workflow", current_user.id,
                                 id, workflow, HTTP_200_OK, {db_workflow})
                   /\ UNCHANGED <<users, organizations, companies, mandates,
                                  deals, tasks, documents, intelligence, now, proc>>

\* select(ICWorkflow).join(Deal).where(Deal.organization_id == ...)
list_ic_workflows(token) ==
    /\ get_current_user(token).status = HTTP_200_OK
    /\ LET current_user == users[get_current_user(token).user] IN
       /\ resp' = Response("list_ic_workflows", current_user.id, None,
                     EmptyBody, HTTP_200_OK,
                     {w \in Rows(ic_workflows) :
                        /\ w.deal_id \in DOMAIN deals
                        /\ deals[w.deal_id].organization_id
                             = current_user.organization_id})
       /\ UNCHANGED <<tables, seq, now, proc>>

\* Faulty variant of WorkflowOutOfScope: the parent deal is not looked up.
WorkflowOutOfScope_NoDealCheck(workflow_id, current_user) ==
    workflow_id \notin DOMAIN ic_workflows

\* if not db_workflow: 404; deal = session.get(Deal, db_workflow.deal_id);
\* if not deal or deal.organization_id != ...: 404
WorkflowOutOfScope(workflow_id, current_user) ==
    \/ workflow_id \notin DOMAIN ic_workflows
    \/ DealOutOfScope(ic_workflows[workflow_id].deal_id, current_user)

update_ic_workflow(token, workflow_id, workflow_update) ==
    /\ get_current_user(token).status = HTTP_200_OK
    /\ LET current_user == users[get_current_user(token).user] IN
       IF WorkflowOutOfScope(workflow_id, current_user)
       THEN /\ resp' = HTTPException("update_ic_workflow", current_user.id,
                                     workflow_id, workflow_update,
                                     HTTP_404_NOT_FOUND)
            /\ UNCHANGED <<tables, seq, now, proc>>
       ELSE LET update_data == dump_exclude_unset(workflow_update,
                                                  ICWorkflowUpdateFields)
                db_workflow == setattr_all(ic_workflows[workflow_id],
                                           update_data)
            IN  /\ IF update_data.nulls \cap ICWorkflowNotNull = {}
                   THEN /\ ic_workflows' =
                              [ic_workflows EXCEPT ![workflow_id] = db_workflow]
                        /\ resp' = Response("update_ic_workflow",
                                      current_user.id, workflow_id,
                                      workflow_update, HTTP_200_OK,
                                      {db_workflow})
                   ELSE /\ ic_workflows' = ic_workflows
                        /\ resp' = HTTPException("update_ic_workflow",
                                      current_user.id, workflow_id,
                                      workflow_update, HTTP_500_SERVER_ERROR)
                /\ UNCHANGED <<users, organizations, companies, mandates,
                               deals, tasks, documents, intelligence, seq, now, proc>>

delete_ic_workflow(token, workflow_id) ==
    /\ get_current_user(token).status = HTTP_200_OK
    /\ LET current_user == users[get_current_user(token).user] IN
       IF WorkflowOutOfScope(workflow_id, current_user)
       THEN /\ resp' = HTTPException("delete_ic_workflow", current_user.id,
                                     workflow_id, EmptyBody, HTTP_404_NOT_FOUND)
            /\ UNCHANGED <<tables, seq, now, proc>>
       ELSE /\ ic_workflows' = Remove(ic_workflows, workflow_id)
            /\ resp' = Response("delete_ic_workflow", current_user.id,
                                workflow_id, EmptyBody, HTTP_200_OK, NoBody)
            /\ UNCHANGED <<users, organizations, companies, mandates, deals,
                           tasks, documents, intelligence, seq, now, proc>>

\* ------------------------------------------------------------ Intelligence
\* IntelligenceCreate: source and content required; deal_id Optional.
IntelligenceCreate_valid(p) == {"source", "content"} \subseteq DOMAIN p.vals

IntelligenceCreate_dump(p) ==
    [deal_id |-> Get(p, "deal_id", None), source |-> p.vals["source"],
     content |-> p.vals["content"]]

\* Intelligence(**intel.model_dump())
Intelligence(d, id) ==
    [id |-> id, deal_id |-> d.deal_id, source |-> d.source,
     content |-> d.content, ingested_at |-> utc_now]

\* `if intel.deal_id:` is false for None and for 0.
Truthy(n) == n # None /\ n # 0

create_intelligence(token, intel) ==
    /\ get_current_user(token).status = HTTP_200_OK
    /\ LET current_user == users[get_current_user(token).user] IN
       IF ~IntelligenceCreate_valid(intel)
       THEN /\ resp' = HTTPException("create_intelligence", current_user.id,
                                     None, intel, HTTP_422_UNPROCESSABLE)
            /\ UNCHANGED <<tables, seq, now, proc>>
       ELSE IF /\ Truthy(IntelligenceCreate_dump(intel).deal_id)
               /\ DealOutOfScope(IntelligenceCreate_dump(intel).deal_id,
                                 current_user)
       THEN /\ resp' = HTTPException("create_intelligence", current_user.id,
                                     None, intel, HTTP_404_NOT_FOUND)
            /\ UNCHANGED <<tables, seq, now, proc>>
       ELSE /\ InsertsLeft
            /\ LET id == seq.intelligence + 1
                   db_intel == Intelligence(IntelligenceCreate_dump(intel), id)
               IN  /\ seq' = [seq EXCEPT !.intelligence = id]
                   /\ IF FK(db_intel.deal_id, deals)
                      THEN /\ intelligence' = Insert(intelligence, id, db_intel)
                           /\ resp' = Response("create_intelligence",
                                         current_user.id, id, intel,
                                         HTTP_200_OK, {db_intel})
                      ELSE /\ intelligence' = intelligence
                           /\ resp' = HTTPException("create_intelligence",
                                         current_user.id, None, intel,
                                         HTTP_500_SERVER_ERROR)
                   /\ UNCHANGED <<users, organizations, companies, mandates,
                                  deals, tasks, documents, ic_workflows, now, proc>>

\* session.exec(select(Intelligence)).all()
list_intelligence(token) ==
    /\ get_current_user(token).status = HTTP_200_OK
    /\ LET current_user == users[get_current_user(token).user] IN
       /\ resp' = Response("list_intelligence", current_user.id, None,
                     EmptyBody, HTTP_200_OK, Rows(intelligence))
       /\ UNCHANGED <<tables, seq, now, proc>>

delete_intelligence(token, intel_id) ==
    /\ get_current_user(token).status = HTTP_200_OK
    /\ LET current_user == users[get_current_user(token).user] IN
       IF intel_id \notin DOMAIN intelligence
       THEN /\ resp' = HTTPException("delete_intelligence", current_user.id,
                                     intel_id, EmptyBody, HTTP_404_NOT_FOUND)
            /\ UNCHANGED <<tables, seq, now, proc>>
       ELSE /\ intelligence' = Remove(intelligence, intel_id)
            /\ resp' = Response("delete_intelligence", current_user.id,
                                intel_id, EmptyBody, HTTP_200_OK, NoBody)
            /\ UNCHANGED <<users, organizations, companies, mandates, deals,
                           tasks, documents, ic_workflows, seq, now, proc>>

\* ---------------------------------------------------------- Authentication
\* len() of the strings the requests below send in length-checked fields.
StrLen(s) ==
    CASE s = "X" -> 1
      [] s = "al" -> 2
      [] s = "bob" -> 3
      [] s \in {"gina", "Acme", "Beta"} -> 4
      [] s \in {"alice", "henry", "short", "Gamma"} -> 5
      [] s \in {"pw-gina1", "pw-alice", "pw-frank", "TargetCo"} -> 8
      [] s = "pw-wrong!" -> 9

\* EmailStr: the addresses the requests send, and the one that is none.
IsEmail(s) == s # "not-an-email"

\* Faulty variant of login_for_access_token: the is_active test is left out.
login_for_access_token_NoActiveCheck(username, password) ==
    /\ LET form_data == [username |-> username, password |-> password] IN
       IF \/ UserByName(form_data.username) = {}
          \/ ~verify_password(form_data.password,
                users[CHOOSE u \in UserByName(form_data.username) : TRUE]
                    .hashed_password)
       THEN resp' = HTTPException("login", None, None, Body(form_data),
                                  HTTP_401_UNAUTHORIZED)
       ELSE LET user == users[CHOOSE u \in UserByName(form_data.username) : TRUE]
            IN  resp' = Response("login", user.id, None, Body(form_data),
                                 HTTP_200_OK,
                                 {[access_token |->
                                      create_access_token(
                                          [sub |-> user.username],
                                          ACCESS_TOKEN_EXPIRE_MINUTES),
                                   token_type |-> "bearer"]})
    /\ UNCHANGED <<tables, seq, now, proc>>

\* select(User).where(User.username == form_data.username).first(), then
\* verify_password, then is_active.
login_for_access_token(username, password) ==
    /\ LET form_data == [username |-> username, password |-> password] IN
       IF \/ UserByName(form_data.username) = {}
          \/ ~verify_password(form_data.password,
                users[CHOOSE u \in UserByName(form_data.username) : TRUE]
                    .hashed_password)
       THEN resp' = HTTPException("login", None, None, Body(form_data),
                                  HTTP_401_UNAUTHORIZED)
       ELSE LET user == users[CHOOSE u \in UserByName(form_data.username) : TRUE]
            IN  IF ~user.is_active
                THEN resp' = HTTPException("login", user.id, None,
                                 Body(form_data), HTTP_403_FORBIDDEN)
                ELSE resp' = Response("login", user.id, None, Body(form_data),
                                 HTTP_200_OK,
                                 {[access_token |->
                                      create_access_token(
                                          [sub |-> user.username],
                                          ACCESS_TOKEN_EXPIRE_MINUTES),
                                   token_type |-> "bearer"]})
    /\ UNCHANGED <<tables, seq, now, proc>>

\* ------------------------------------------------------------------- Users
\* UserCreate: username of 3..50 characters, email an EmailStr, password
\* of at least 8; role defaults to Member; organization_id Optional.
UserCreate_valid(p) ==
    /\ {"username", "email", "password"} \subseteq DOMAIN p.vals
    /\ StrLen(p.vals["username"]) >= 3 /\ StrLen(p.vals["username"]) <= 50
    /\ IsEmail(p.vals["email"])
    /\ StrLen(p.vals["password"]) >= 8
    /\ "role" \notin p.nulls

UserCreate_dump(p) ==
    [username |-> p.vals["username"], email |-> p.vals["email"],
     password |-> p.vals["password"],
     full_name |-> Get(p, "full_name", NoneStr),
     role |-> Get(p, "role", "Member"),
     organization_id |-> Get(p, "organization_id", None)]

\* User(username=..., email=..., hashed_password=..., full_name=...,
\*      role=..., organization_id=user.organization_id)
User(d, id) ==
    [id |-> id, username |-> d.username, email |-> d.email,
     hashed_password |-> get_password_hash(d.password),
     full_name |-> d.full_name, role |-> d.role,
     organization_id |-> d.organization_id, is_active |-> TRUE,
     created_at |-> utc_now]

\* Faulty variant of ExistingUser: only the username is compared.
ExistingUser_UsernameOnly(d) ==
    {u \in DOMAIN users : users[u].username = d.username}

\* select(User).where((User.username == ...) | (User.email == ...)).first()
ExistingUser(d) ==
    {u \in DOMAIN users :
        users[u].username = d.username \/ users[u].email = d.email}

\* UserResponse: the row without its password hash.
UserResponse(u) ==
    [id |-> u.id, username |-> u.username, email |-> u.email,
     full_name |-> u.full_name, role |-> u.role,
     organization_id |-> u.organization_id, is_active |-> u.is_active,
     created_at |-> u.created_at]

create_user(token, user) ==
    /\ get_current_user(token).status = HTTP_200_OK
    /\ LET admin == get_current_active_admin(token) IN
       IF admin.status # HTTP_200_OK
       THEN /\ resp' = HTTPException("create_user", admin.user, None, user,
                                     admin.status)
            /\ UNCHANGED <<tables, seq, now, proc>>
       ELSE IF ~UserCreate_valid(user)
       THEN /\ resp' = HTTPException("create_user", admin.user, None, user,
                                     HTTP_422_UNPROCESSABLE)
            /\ UNCHANGED <<tables, seq, now, proc>>
       ELSE IF ExistingUser(UserCreate_dump(user)) # {}
       THEN /\ resp' = HTTPException("create_user", admin.user, None, user,
                                     HTTP_400_BAD_REQUEST)
            /\ UNCHANGED <<tables, seq, now, proc>>
       ELSE /\ InsertsLeft
            /\ LET id == seq.users + 1
                   db_user == User(UserCreate_dump(user), id)
               IN  /\ seq' = [seq EXCEPT !.users = id]
                   /\ IF FK(db_user.organization_id, organizations)
                      THEN /\ users' = Insert(users, id, db_user)
                           /\ resp' = Response("create_user", admin.user, id,
                                         user, HTTP_200_OK,
                                         {UserResponse(db_user)})
                      ELSE /\ users' = users
                           /\ resp' = HTTPException("create_user", admin.user,
                                         None, user, HTTP_500_SERVER_ERROR)
                   /\ UNCHANGED <<organizations, companies, mandates, deals,
                                  tasks, documents, ic_workflows,
                                  intelligence, now, proc>>

\* GET /users/me: return current_user; the answer of get_current_user
\* when it refuses the token.
get_current_user_profile(token) ==
    /\ LET a == get_current_user(token) IN
       IF a.status # HTTP_200_OK
       THEN resp' = HTTPException("get_current_user_profile", a.user, None,
                                  Body([token |-> token]), a.status)
       ELSE resp' = Response("get_current_user_profile", a.user, None,
                             Body([token |-> token]), HTTP_200_OK,
                             {UserResponse(users[a.user])})
    /\ UNCHANGED <<tables, seq, now, proc>>

list_users(token) ==
    /\ get_current_user(token).status = HTTP_200_OK
    /\ LET admin == get_current_active_admin(token) IN
       /\ IF admin.status # HTTP_200_OK
          THEN resp' = HTTPException("list_users", admin.user, None, EmptyBody,
                                     admin.status)
          ELSE resp' = Response("list_users", admin.user, None, EmptyBody,
                          HTTP_200_OK, {UserResponse(u) : u \in Rows(users)})
       /\ UNCHANGED <<tables, seq, now, proc>>

\* ----------------------------------------------------------- Organizations
\* OrganizationCreate: name of 2..100 characters, type required.
OrganizationCreate_valid(p) ==
    /\ {"name", "type"} \subseteq DOMAIN p.vals
    /\ StrLen(p.vals["name"]) >= 2 /\ StrLen(p.vals["name"]) <= 100

\* Organization(**org.model_dump())
Organization(p, id) ==
    [id |-> id, name |-> p.vals["name"], type |-> p.vals["type"],
     created_at |-> utc_now]

\* Faulty variant of ExistingOrganization: the lookup finds nothing.
ExistingOrganization_Never(org) == {}

\* select(Organization).where(Organization.name == org.name).first()
ExistingOrganization(org) ==
    {o \in DOMAIN organizations : organizations[o].name = org.vals["name"]}

create_organization(token, org) ==
    /\ get_current_user(token).status = HTTP_200_OK
    /\ LET admin == get_current_active_admin(token) IN
       IF admin.status # HTTP_200_OK
       THEN /\ resp' = HTTPException("create_organization", admin.user, None,
                                     org, admin.status)
            /\ UNCHANGED <<tables, seq, now, proc>>
       ELSE IF ~OrganizationCreate_valid(org)
       THEN /\ resp' = HTTPException("create_organization", admin.user, None,
                                     org, HTTP_422_UNPROCESSABLE)
            /\ UNCHANGED <<tables, seq, now, proc>>
       ELSE IF ExistingOrganization(org) # {}
       THEN /\ resp' = HTTPException("create_organization", admin.user, None,
                                     org, HTTP_400_BAD_REQUEST)
            /\ UNCHANGED <<tables, seq, now, proc>>
       ELSE /\ InsertsLeft
            /\ LET id == seq.organizations + 1
                   db_org == Organization(org, id)
               IN  /\ seq' = [seq EXCEPT !.organizations = id]
                   /\ organizations' = Insert(organizations, id, db_org)
                   /\ resp' = Response("create_organization", admin.user, id,
                                 org, HTTP_200_OK, {db_org})
                   /\ UNCHANGED <<users, companies, mandates, deals, tasks,
                                  documents, ic_workflows, intelligence, now, proc>>

list_organizations(token) ==
    /\ get_current_user(token).status = HTTP_200_OK
    /\ resp' = Response("list_organizations", get_current_user(token).user,
                  None, EmptyBody, HTTP_200_OK, Rows(organizations))
    /\ UNCHANGED <<tables, seq, now, proc>>

\* --------------------------------------------------------------- Companies
\* CompanyCreate: name of 2..200 characters; the rest Optional.
CompanyCreate_valid(p) ==
    /\ "name" \in DOMAIN p.vals
    /\ StrLen(p.vals["name"]) >= 2 /\ StrLen(p.vals["name"]) <= 200

\* Company(**company.model_dump())
Company(p, id) ==
    [id |-> id, name |-> p.vals["name"],
     website |-> Get(p, "website", NoneStr),
     location |-> Get(p, "location", NoneStr),
     sector |-> Get(p, "sector", NoneStr),
     size_estimate |-> Get(p, "size_estimate", NoneStr),
     owner_type |-> Get(p, "owner_type", NoneStr), created_at |-> utc_now]

\* select(Company).where(Company.name == company.name).first()
ExistingCompany(company) ==
    {c \in DOMAIN companies : companies[c].name = company.vals["name"]}

create_company(token, company) ==
    /\ get_current_user(token).status = HTTP_200_OK
    /\ LET current_user == users[get_current_user(token).user] IN
       IF ~CompanyCreate_valid(company)
       THEN /\ resp' = HTTPException("create_company", current_user.id, None,
                                     company, HTTP_422_UNPROCESSABLE)
            /\ UNCHANGED <<tables, seq, now, proc>>
       ELSE IF ExistingCompany(company) # {}
       THEN /\ resp' = HTTPException("create_company", current_user.id, None,
                                     company, HTTP_400_BAD_REQUEST)
            /\ UNCHANGED <<tables, seq, now, proc>>
       ELSE /\ InsertsLeft
            /\ LET id == seq.companies + 1
                   db_company == Company(company, id)
               IN  /\ seq' = [seq EXCEPT !.companies = id]
                   /\ companies' = Insert(companies, id, db_company)
                   /\ resp' = Response("create_company", current_user.id, id,
                                 company, HTTP_200_OK, {db_company})
                   /\ UNCHANGED <<users, organizations, mandates, deals, tasks,
                                  documents, ic_workflows, intelligence, now, proc>>

list_companies(token) ==
    /\ get_current_user(token).status = HTTP_200_OK
    /\ resp' = Response("list_companies", get_current_user(token).user,
                  None, EmptyBody, HTTP_200_OK, Rows(companies))
    /\ UNCHANGED <<tables, seq, now, proc>>

\* ================================================================ requests
\* Bearer tokens of the clients: one per active user, logged in just now.
Alice == BearerOf("alice")
Bob == BearerOf("bob")
Carol == BearerOf("carol")
Dave == BearerOf("dave")
Erin == BearerOf("erin")

\* Tokens get_current_user refuses: a forged signature, an expired token,
\* a subject that is no user, an inactive user.
BadTokens ==
    {[sub |-> "alice", exp |-> now + ACCESS_TOKEN_EXPIRE_MINUTES, key |-> OtherKey],
     [sub |-> "alice", exp |-> now, key |-> SECRET_KEY],
     BearerOf("mallory"), BearerOf("frank")}

\* Ids a path or a payload may name: stored ones and one that never is.
Ids == 1..(MaxRows + 1)

\* Bodies of POST /deals/: the required fields alone; every field, with
\* owner_id and organization_id added; a quality_score out of range.
DealBodies ==
    {Body([company_name |-> "TargetCo", description |-> "d1"]),
     Body([company_name |-> "TargetCo", description |-> "d1",
           mandate_id |-> 1, company_id |-> 1, quality_score |-> 100,
           owner_id |-> 2, organization_id |-> 2]),
     Body([company_name |-> "TargetCo", description |-> "d1",
           quality_score |-> 101])}

\* Bodies of PUT /deals/{deal_id}: one field; a quality_score out of range.
DealUpdateBodies ==
    {Body([description |-> "d2"]),
     Body([description |-> "d2", quality_score |-> 101])}

\* Bodies of POST /mandates/: valid, with organization_id and created_by_id
\* added; a company that does not exist; a type outside the pattern.
MandateBodies ==
    {Body([type |-> "buy-side", confidence_score |-> "A", scope |-> "s1",
           company_id |-> 1, organization_id |-> 2, created_by_id |-> 2]),
     Body([type |-> "buy-side", confidence_score |-> "A", company_id |-> 9]),
     Body([type |-> "hostile", confidence_score |-> "A"])}

\* ------------------------------------------------ Spec: deals and mandates
\* Clients of two organizations and one of none.
Clients == {Alice, Bob, Carol}

Next ==
    \/ \E t \in BadTokens : auth_failure(t)
    \/ \E t \in Clients, b \in MandateBodies : create_mandate(t, b)
    \/ \E t \in Clients : list_mandates(t)
    \/ \E t \in Clients, id \in Ids : get_mandate(t, id)
    \/ \E t \in Clients, b \in DealBodies : create_deal(t, b)
    \/ \E t \in Clients : list_deals(t)
    \/ \E t \in Clients, id \in Ids : get_deal(t, id)
    \/ \E t \in Clients, id \in Ids, b \in DealUpdateBodies : update_deal(t, id, b)
    \/ \E t \in Clients, id \in Ids : delete_deal(t, id)

Spec == Init /\ [][Next]_vars

\* ------------------------- SpecChild: tasks, documents and IC workflows
\* Bodies of POST /deals/{deal_id}/tasks/: description alone; with an
\* owner_id; a status outside the pattern.
TaskBodies ==
    {Body([description |-> "t1"]),
     Body([description |-> "t1", owner_id |-> 2]),
     Body([description |-> "t1", status |-> "Done"])}

\* Bodies of PUT /tasks/{task_id}: a status; a status outside the pattern.
TaskUpdateBodies ==
    {Body([status |-> "Completed"]),
     Body([status |-> "Done"])}

\* Bodies of POST /deals/{deal_id}/documents/: valid; a version below 1.
DocumentBodies ==
    {Body([name |-> "nda.pdf", path |-> "s3://room/nda.pdf"]),
     Body([name |-> "nda.pdf", path |-> "s3://room/nda.pdf", version |-> 0])}

\* Bodies of POST /ic-workflows/: for each deal id; without the approver.
ICWorkflowBodies ==
    {Body([deal_id |-> id, approver |-> "partner"]) : id \in Ids}
    \cup {Body([deal_id |-> 1])}

\* Bodies of PUT /ic-workflows/{workflow_id}.
ICWorkflowUpdateBodies == {Body([approved |-> TRUE])}

\* The body of POST /deals/ the child specifications use.
DealBody == Body([company_name |-> "TargetCo", description |-> "d1"])

\* Clients of two organizations.
ChildClients == {Alice, Bob}

NextChild ==
    \/ \E t \in ChildClients : create_deal(t, DealBody)
    \/ \E t \in ChildClients, id \in Ids : delete_deal(t, id)
    \/ \E t \in ChildClients, id \in Ids, b \in TaskBodies : create_task(t, id, b)
    \/ \E t \in ChildClients, id \in Ids : list_tasks(t, id)
    \/ \E t \in ChildClients, id \in Ids, b \in TaskUpdateBodies :
          update_task(t, id, b)
    \/ \E t \in ChildClients, id \in Ids, b \in DocumentBodies :
          create_document(t, id, b)
    \/ \E t \in ChildClients, id \in Ids : list_documents(t, id)
    \/ \E t \in ChildClients, b \in ICWorkflowBodies : create_ic_workflow(t, b)
    \/ \E t \in ChildClients : list_ic_workflows(t)
    \/ \E t \in ChildClients, id \in Ids, b \in ICWorkflowUpdateBodies :
          update_ic_workflow(t, id, b)
    \/ \E t \in ChildClients, id \in Ids : delete_ic_workflow(t, id)

SpecChild == Init /\ [][NextChild]_vars

\* ------------------------------------------------- SpecIntel: intelligence
\* Bodies of POST /intelligence/: no deal; deal_id 0; each deal id; no
\* content.
IntelligenceBodies ==
    {Body([source |-> "Manual Entry", content |-> "note"]),
     Body([deal_id |-> 0, source |-> "Manual Entry", content |-> "note"]),
     Body([source |-> "Manual Entry"])}
    \cup {Body([deal_id |-> id, source |-> "Manual Entry", content |-> "note"]) :
             id \in Ids}

NextIntel ==
    \/ \E t \in ChildClients : create_deal(t, DealBody)
    \/ \E t \in ChildClients, id \in Ids : delete_deal(t, id)
    \/ \E t \in ChildClients, b \in IntelligenceBodies : create_intelligence(t, b)
    \/ \E t \in ChildClients : list_intelligence(t)
    \/ \E t \in ChildClients, id \in Ids : delete_intelligence(t, id)

SpecIntel == Init /\ [][NextIntel]_vars

\* ------------------------------------------- SpecUpdate: partial updates
\* Bodies of PUT /deals/{deal_id}: nothing sent; one field; every field of
\* the schema; a value with explicit nulls for nullable columns; an
\* explicit null for a NOT NULL column; fields the schema does not declare.
RichDealUpdateBodies ==
    {EmptyBody,
     Body([description |-> "d2"]),
     Body([company_name |-> "NewCo", description |-> "d2",
           stage |-> "Diligence", type |-> "M&A", status |-> "Approved",
           quality_score |-> 50]),
     BodyN([description |-> "d2"], {"type", "quality_score"}),
     BodyN([stage |-> "Diligence"], {"company_name"}),
     Body([description |-> "d2", id |-> 9, owner_id |-> 2,
           organization_id |-> 2, mandate_id |-> 1, created_at |-> 5])}

\* Bodies of PUT /tasks/{task_id}, likewise; and an owner that is no user.
RichTaskUpdateBodies ==
    {EmptyBody,
     Body([status |-> "Completed"]),
     Body([description |-> "t2", owner_id |-> 2, due_date |-> 7,
           status |-> "Completed"]),
     BodyN([status |-> "Completed"], {"owner_id", "due_date"}),
     BodyN([description |-> "t2"], {"status"}),
     Body([owner_id |-> 9]),
     Body([status |-> "Completed", id |-> 9, deal_id |-> 2, created_at |-> 5])}

\* Bodies of PUT /ic-workflows/{workflow_id}, likewise.
RichICWorkflowUpdateBodies ==
    {EmptyBody,
     Body([approved |-> TRUE]),
     Body([notes |-> "ok", approved |-> TRUE]),
     BodyN([approved |-> TRUE], {"notes"}),
     BodyN([notes |-> "ok"], {"approved"}),
     Body([approved |-> TRUE, id |-> 9, deal_id |-> 2, approver |-> "other"])}

\* Bodies of the creates: rows with their Optional columns set.
UpdDealBody ==
    Body([company_name |-> "TargetCo", description |-> "d1",
          type |-> "Search Fund", company_id |-> 1, quality_score |-> 100])
UpdTaskBody == Body([description |-> "t1", owner_id |-> 1, due_date |-> 3])
UpdICWorkflowBodies ==
    {Body([deal_id |-> id, approver |-> "partner", notes |-> "n0"]) : id \in Ids}

\* The client of the update specification.
UpdClients == {Alice}

NextUpdate ==
    \/ \E t \in UpdClients : create_deal(t, UpdDealBody)
    \/ \E t \in UpdClients, id \in Ids, b \in RichDealUpdateBodies :
          update_deal(t, id, b)
    \/ \E t \in UpdClients, id \in Ids : create_task(t, id, UpdTaskBody)
    \/ \E t \in UpdClients, id \in Ids, b \in RichTaskUpdateBodies :
          update_task(t, id, b)
    \/ \E t \in UpdClients, b \in UpdICWorkflowBodies : create_ic_workflow(t, b)
    \/ \E t \in UpdClients, id \in Ids, b \in RichICWorkflowUpdateBodies :
          update_ic_workflow(t, id, b)

SpecUpdate == Init /\ [][NextUpdate]_vars

\* ================================================================== claims
\* The organization of the user who made the last request.
ActorOrg(r) == users[r.actor].organization_id

\* C1: a get_deal, update_deal or delete_deal of a stored deal whose
\* organization is not the caller's answers 404 (an update whose body
\* fails validation answers 422 before the handler runs), never 403 and
\* never with the record, and leaves the deals table as it was.
C1_CrossOrgDealNotFound ==
    [][(/\ resp'.op \in {"get_deal", "update_deal", "delete_deal"}
        /\ resp'.id \in DOMAIN deals
        /\ deals[resp'.id].organization_id # ActorOrg(resp'))
       => /\ resp'.status \in {HTTP_404_NOT_FOUND, HTTP_422_UNPROCESSABLE}
          /\ (resp'.status = HTTP_422_UNPROCESSABLE
                => resp'.op = "update_deal" /\ ~DealUpdate_valid(resp'.payload))
          /\ resp'.body = NoBody
          /\ tables' = tables]_vars

\* C1 witness: a caller of another organization asked to delete a stored
\* deal, was answered 404, and the deal is still stored.
C1_Witness ==
    /\ resp.op = "delete_deal"
    /\ resp.status = HTTP_404_NOT_FOUND
    /\ resp.id \in DOMAIN deals
    /\ deals[resp.id].organization_id # ActorOrg(resp)

\* C2: list_deals (list_mandates) answers with exactly the stored deals
\* (mandates) whose organization_id is the caller's: none of another
\* organization, none of the caller's left out.
C2_ListIsExactlyOwnOrg ==
    /\ resp.op = "list_deals" =>
          /\ resp.body \subseteq Rows(deals)
          /\ \A d \in Rows(deals) :
                d \in resp.body <=> d.organization_id = ActorOrg(resp)
    /\ resp.op = "list_mandates" =>
          /\ resp.body \subseteq Rows(mandates)
          /\ \A m \in Rows(mandates) :
                m \in resp.body <=> m.organization_id = ActorOrg(resp)

\* C2 witness: after creates by two organizations a list returned some
\* deal and left another stored deal out.
C2_Witness ==
    /\ resp.op = "list_deals"
    /\ resp.body # {}
    /\ \E d \in Rows(deals) : d \notin resp.body

\* C3 (as claimed): an Intelligence row attached to a deal of another
\* organization is never in the answer of list_intelligence, and
\* delete_intelligence on it answers 404 and leaves it stored.
C3_IntelligenceScopedLikeDeal ==
    [][/\ resp'.op = "list_intelligence" =>
             \A i \in resp'.body :
                 i.deal_id \in DOMAIN deals =>
                     deals[i.deal_id].organization_id = ActorOrg(resp')
       /\ (/\ resp'.op = "delete_intelligence"
           /\ resp'.id \in DOMAIN intelligence
           /\ intelligence[resp'.id].deal_id \in DOMAIN deals
           /\ deals[intelligence[resp'.id].deal_id].organization_id
                 # ActorOrg(resp'))
          => /\ resp'.status = HTTP_404_NOT_FOUND
             /\ intelligence' = intelligence]_vars

\* A deal is stored and belongs to the organization org.
InScope(deal_id, org) ==
    deal_id \in DOMAIN deals /\ deals[deal_id].organization_id = org

ChildOps == {"create_task", "list_tasks", "update_task", "create_document",
             "list_documents", "create_ic_workflow", "update_ic_workflow",
             "delete_ic_workflow"}

\* The parent deal of the record a request on a task, document or IC
\* workflow names (None when the record is not stored).
ParentDeal(r) ==
    CASE r.op \in {"create_task", "list_tasks", "create_document",
                   "list_documents"} -> r.id
      [] r.op = "update_task" ->
            IF r.id \in DOMAIN tasks THEN tasks[r.id].deal_id ELSE None
      [] r.op = "create_ic_workflow" -> Get(r.payload, "deal_id", None)
      [] r.op \in {"update_ic_workflow", "delete_ic_workflow"} ->
            IF r.id \in DOMAIN ic_workflows
            THEN ic_workflows[r.id].deal_id ELSE None

\* The body of a request on a task, document or IC workflow passes its schema.
ChildBodyValid(r) ==
    CASE r.op = "create_task" -> TaskCreate_valid(r.payload)
      [] r.op = "update_task" -> TaskUpdate_valid(r.payload)
      [] r.op = "create_document" -> DocumentCreate_valid(r.payload)
      [] r.op = "create_ic_workflow" -> ICWorkflowCreate_valid(r.payload)
      [] OTHER -> TRUE

\* C4: a request on a task, document or IC workflow succeeds only when the
\* parent deal is stored and belongs to the caller's organization;
\* otherwise it answers 404 (422 when the body fails its schema, which is
\* checked before the handler runs), never 403, with no record, and
\* changes no table; list_ic_workflows answers only with workflows whose
\* deal belongs to the caller's organization.
C4_ChildOpsNeedOwnDeal ==
    [][/\ resp'.op \in ChildOps =>
            /\ resp'.status = HTTP_200_OK
                  => InScope(ParentDeal(resp'), ActorOrg(resp'))
            /\ ~InScope(ParentDeal(resp'), ActorOrg(resp')) =>
                  /\ resp'.status = IF ChildBodyValid(resp')
                                    THEN HTTP_404_NOT_FOUND
                                    ELSE HTTP_422_UNPROCESSABLE
                  /\ resp'.body = NoBody
            /\ resp'.status # HTTP_200_OK => tables' = tables
            /\ resp'.status # HTTP_403_FORBIDDEN
       /\ resp'.op = "list_ic_workflows" =>
            /\ resp'.status = HTTP_200_OK
            /\ \A w \in resp'.body : InScope(w.deal_id, ActorOrg(resp'))]_vars

\* C4 witness: a caller asked to update a stored task whose deal belongs
\* to another organization and was answered 404.
C4_Witness ==
    /\ resp.op = "update_task"
    /\ resp.status = HTTP_404_NOT_FOUND
    /\ resp.id \in DOMAIN tasks
    /\ tasks[resp.id].deal_id \in DOMAIN deals
    /\ deals[tasks[resp.id].deal_id].organization_id # ActorOrg(resp)

\* Fields whose value is to come from the actor.
ActorFields == {"owner_id", "organization_id", "created_by_id"}

\* Two bodies differ at most in the actor-derived fields.
SameButActorFields(p, q) ==
    /\ Sent(p) \ ActorFields = Sent(q) \ ActorFields
    /\ p.nulls \ ActorFields = q.nulls \ ActorFields
    /\ \A f \in DOMAIN p.vals \ ActorFields : p.vals[f] = q.vals[f]

\* C5 (as claimed): the owner_id, organization_id and created_by_id a
\* create stores do not depend on the body: a body that differs from the
\* one sent only in those fields would have stored the same values.
C5_ActorFieldsNotFromPayload ==
    /\ (resp.op = "create_deal" /\ resp.status = HTTP_200_OK) =>
          \A r \in resp.body, q \in DealBodies :
              (SameButActorFields(resp.payload, q) /\ DealCreate_valid(q)) =>
                 LET alt == Deal(DealCreate_dump(q), r.id, resp.actor,
                                 ActorOrg(resp))
                 IN  /\ alt.owner_id = r.owner_id
                     /\ alt.organization_id = r.organization_id
    /\ (resp.op = "create_task" /\ resp.status = HTTP_200_OK) =>
          \A r \in resp.body, q \in TaskBodies :
              (SameButActorFields(resp.payload, q) /\ TaskCreate_valid(q)) =>
                 Task(TaskCreate_dump(q), r.id, r.deal_id).owner_id = r.owner_id
    /\ (resp.op = "create_mandate" /\ resp.status = HTTP_200_OK) =>
          \A r \in resp.body, q \in MandateBodies :
              (SameButActorFields(resp.payload, q) /\ MandateCreate_valid(q)) =>
                 LET alt == Mandate(MandateCreate_dump(q), r.id,
                                    ActorOrg(resp), resp.actor)
                 IN  /\ alt.organization_id = r.organization_id
                     /\ alt.created_by_id = r.created_by_id

\* The row an update request named, before and after, satisfies the
\* partial-update rule for the schema's fields.
PartialUpdate(old, new, p, fields) ==
    /\ DOMAIN new = DOMAIN old
    /\ \A f \in DOMAIN old :
          IF f \in fields /\ f \in DOMAIN p.vals THEN new[f] = p.vals[f]
          ELSE IF f \in fields /\ f \in p.nulls THEN new[f] = NullOf(f)
          ELSE new[f] = old[f]

\* Only the row id of the table differs between before and after.
OnlyRow(before, after, id) ==
    /\ DOMAIN after = DOMAIN before
    /\ \A k \in DOMAIN before \ {id} : after[k] = before[k]

\* C6: after a successful update_deal, update_task or update_ic_workflow
\* every field of the schema that the body sent holds the body's value
\* and every other field of the row (not sent, or not in the schema:
\* id, created_at, owner_id, deal_id, ...) holds the value it had.
C6_PartialUpdateFrame ==
    [][/\ (resp'.op = "update_deal" /\ resp'.status = HTTP_200_OK) =>
            /\ PartialUpdate(deals[resp'.id], deals'[resp'.id],
                             resp'.payload, DealUpdateFields)
            /\ OnlyRow(deals, deals', resp'.id)
       /\ (resp'.op = "update_task" /\ resp'.status = HTTP_200_OK) =>
            /\ PartialUpdate(tasks[resp'.id], tasks'[resp'.id],
                             resp'.payload, TaskUpdateFields)
            /\ OnlyRow(tasks, tasks', resp'.id)
       /\ (resp'.op = "update_ic_workflow" /\ resp'.status = HTTP_200_OK) =>
            /\ PartialUpdate(ic_workflows[resp'.id], ic_workflows'[resp'.id],
                             resp'.payload, ICWorkflowUpdateFields)
            /\ OnlyRow(ic_workflows, ic_workflows', resp'.id)]_vars

\* C6 witness: an update that sent a value and explicit nulls succeeded on
\* a deal whose other fields still hold what the create stored.
C6_Witness ==
    /\ resp.op = "update_deal"
    /\ resp.status = HTTP_200_OK
    /\ resp.payload.nulls # {}
    /\ deals[resp.id].description = "d2"
    /\ deals[resp.id].quality_score = None
    /\ deals[resp.id].company_name = "TargetCo"

\* The bearer token of the user who made the last request.
ActorToken(r) == BearerOf(users[r.actor].username)

\* C7: right after a successful update, the same update sent again
\* succeeds, changes no table and answers with the same record.
C7_UpdateIdempotent ==
    /\ (resp.op = "update_deal" /\ resp.status = HTTP_200_OK) =>
          /\ ENABLED update_deal(ActorToken(resp), resp.id, resp.payload)
          /\ ~ENABLED (/\ update_deal(ActorToken(resp), resp.id, resp.payload)
                       /\ (tables' # tables \/ resp' # resp))
    /\ (resp.op = "update_task" /\ resp.status = HTTP_200_OK) =>
          /\ ENABLED update_task(ActorToken(resp), resp.id, resp.payload)
          /\ ~ENABLED (/\ update_task(ActorToken(resp), resp.id, resp.payload)
                       /\ (tables' # tables \/ resp' # resp))
    /\ (resp.op = "update_ic_workflow" /\ resp.status = HTTP_200_OK) =>
          /\ ENABLED update_ic_workflow(ActorToken(resp), resp.id, resp.payload)
          /\ ~ENABLED (/\ update_ic_workflow(ActorToken(resp), resp.id,
                                             resp.payload)
                       /\ (tables' # tables \/ resp' # resp))

\* C7 witness: an update that sent description "d2" succeeded and the deal
\* holds it.
C7_Witness ==
    /\ resp.op = "update_deal"
    /\ resp.status = HTTP_200_OK
    /\ "description" \in DOMAIN resp.payload.vals
    /\ deals[resp.id].description = resp.payload.vals["description"]
    /\ deals[resp.id].description # "d1"

\* ------------------------------- SpecAdmin: login, users, organizations
\* Bodies of POST /users/: a new user placed in organization 2; a taken
\* username; a taken email; a username that is too short.
UserBodies ==
    {Body([username |-> "gina", email |-> "gina@kazi.io",
           password |-> "pw-gina1", organization_id |-> 2]),
     Body([username |-> "alice", email |-> "new@kazi.io",
           password |-> "pw-gina1"]),
     Body([username |-> "henry", email |-> "alice@kazi.io",
           password |-> "pw-gina1"]),
     Body([username |-> "al", email |-> "al@kazi.io",
           password |-> "pw-gina1"])}

\* Bodies of POST /organizations/: a new name, a taken name, a short name.
OrganizationBodies ==
    {Body([name |-> "Gamma", type |-> "LP"]),
     Body([name |-> "Acme", type |-> "LP"]),
     Body([name |-> "X", type |-> "SCP"])}

\* Bodies of POST /companies/: a new name, a taken name, a short name.
CompanyBodies ==
    {Body([name |-> "Gamma", sector |-> "Energy"]),
     Body([name |-> "TargetCo", sector |-> "Energy"]),
     Body([name |-> "X"])}

\* The form of POST /token: an active user, an inactive one, one created
\* during the run, one never stored; right and wrong passwords.
LoginNames == {"alice", "frank", "gina", "henry"}
LoginPasswords == {"pw-alice", "pw-frank", "pw-gina1", "pw-wrong!"}

\* An Owner, a Member, a Viewer and an Admin.
AdminClients == {Alice, Bob, Dave, Erin}

NextAdmin ==
    \/ \E u \in LoginNames, p \in LoginPasswords : login_for_access_token(u, p)
    \/ \E t \in AdminClients, b \in UserBodies : create_user(t, b)
    \/ \E t \in AdminClients : list_users(t)
    \/ \E t \in AdminClients, b \in OrganizationBodies : create_organization(t, b)
    \/ \E t \in AdminClients : list_organizations(t)
    \/ \E t \in AdminClients, b \in CompanyBodies : create_company(t, b)
    \/ \E t \in AdminClients : list_companies(t)
    \/ \E t \in BadTokens : auth_failure(t)

SpecAdmin == Init /\ [][NextAdmin]_vars

\* The user who made the request passes get_current_active_admin.
ActorIsAdmin(r) ==
    r.actor \in DOMAIN users /\ users[r.actor].role \in {"Owner", "Admin"}

\* C8: create_organization by an admin with a well-formed body whose name
\* a stored organization has answers 400, with no record, and changes no
\* table; so does create_company with the name of a stored company.
C8_DuplicateNameConflict ==
    [][/\ (/\ resp'.op = "create_organization"
           /\ ActorIsAdmin(resp')
           /\ OrganizationCreate_valid(resp'.payload)
           /\ \E o \in DOMAIN organizations :
                 organizations[o].name = resp'.payload.vals["name"])
          => /\ resp'.status = HTTP_400_BAD_REQUEST
             /\ resp'.body = NoBody
             /\ tables' = tables
       /\ (/\ resp'.op = "create_company"
           /\ CompanyCreate_valid(resp'.payload)
           /\ \E c \in DOMAIN companies :
                 companies[c].name = resp'.payload.vals["name"])
          => /\ resp'.status = HTTP_400_BAD_REQUEST
             /\ resp'.body = NoBody
             /\ tables' = tables]_vars

\* C8 witness: an organization created during the run was offered again
\* and the second request was answered 400.
C8_Witness ==
    /\ resp.op = "create_organization"
    /\ resp.status = HTTP_400_BAD_REQUEST
    /\ resp.payload.vals["name"] = "Gamma"
    /\ Cardinality({o \in DOMAIN organizations :
                       organizations[o].name = "Gamma"}) = 1

\* No two stored users share a username or an email.
UniqueUsers ==
    \A u, v \in DOMAIN users :
        u # v => /\ users[u].username # users[v].username
                 /\ users[u].email # users[v].email

\* C9: no two stored users ever share a username or an email, and
\* create_user by an admin with a well-formed body whose username or email
\* a stored user has answers 400 and changes no table.
C9_UniqueUsernameAndEmail ==
    /\ []UniqueUsers
    /\ [][(/\ resp'.op = "create_user"
           /\ ActorIsAdmin(resp')
           /\ UserCreate_valid(resp'.payload)
           /\ \E u \in DOMAIN users :
                 \/ users[u].username = resp'.payload.vals["username"]
                 \/ users[u].email = resp'.payload.vals["email"])
          => /\ resp'.status = HTTP_400_BAD_REQUEST
             /\ resp'.body = NoBody
             /\ tables' = tables]_vars

\* C9 witness: a body with a new username and the email of a stored user
\* was answered 400.
C9_Witness ==
    /\ resp.op = "create_user"
    /\ resp.status = HTTP_400_BAD_REQUEST
    /\ UserByName(resp.payload.vals["username"]) = {}
    /\ \E u \in DOMAIN users : users[u].email = resp.payload.vals["email"]

\* The stored users the login form names whose hash the password verifies.
Verified(form) ==
    {u \in UserByName(form.vals["username"]) :
        verify_password(form.vals["password"], users[u].hashed_password)}

\* C10: POST /token answers 200 exactly when the username names a stored
\* user, the password verifies against its hash and the user is active,
\* and then with one bearer token whose subject is the username; 401
\* exactly when the user is unknown or the password is wrong, active or
\* not; 403 exactly when the password verifies and the user is inactive.
C10_LoginOutcome ==
    [][resp'.op = "login" =>
          LET form == resp'.payload
              ok == Verified(form)
          IN  /\ resp'.status = HTTP_200_OK <=>
                    \E u \in ok : users[u].is_active
              /\ resp'.status = HTTP_401_UNAUTHORIZED <=> ok = {}
              /\ resp'.status = HTTP_403_FORBIDDEN <=>
                    (ok # {} /\ \A u \in ok : ~users[u].is_active)
              /\ resp'.status = HTTP_200_OK =>
                    /\ Cardinality(resp'.body) = 1
                    /\ \A t \in resp'.body :
                          /\ t.access_token.sub = form.vals["username"]
                          /\ t.token_type = "bearer"
              /\ resp'.status # HTTP_200_OK => resp'.body = NoBody
              /\ tables' = tables]_vars

\* C10 witness: an inactive user logged in with the right password and
\* was answered 403.
C10_Witness ==
    /\ resp.op = "login"
    /\ resp.status = HTTP_403_FORBIDDEN
    /\ Verified(resp.payload) # {}
    /\ \A u \in Verified(resp.payload) : ~users[u].is_active

\* C11: create_user, list_users and create_organization answer 200 only
\* to a caller whose role is Owner or Admin; a caller with any other role
\* is answered 403, with no record, and no table changes.
C11_AdminOnly ==
    [][resp'.op \in {"create_user", "list_users", "create_organization"} =>
          /\ resp'.status = HTTP_200_OK => ActorIsAdmin(resp')
          /\ ~ActorIsAdmin(resp') =>
                /\ resp'.status = HTTP_403_FORBIDDEN
                /\ resp'.body = NoBody
                /\ tables' = tables]_vars

\* C11 witness: a Viewer sent a well-formed body with a new username to
\* create_user and was answered 403.
C11_Witness ==
    /\ resp.op = "create_user"
    /\ resp.status = HTTP_403_FORBIDDEN
    /\ users[resp.actor].role = "Viewer"
    /\ UserCreate_valid(resp.payload)
    /\ UserByName(resp.payload.vals["username"]) = {}

\* ------------------------------------------- SpecToken: token lifetime
\* A minute passes.
Tick ==
    /\ now < MaxTime
    /\ now' = now + 1
    /\ UNCHANGED <<tables, seq, resp, proc>>

\* The token a client holds: the one the last login answered with, or the
\* one it presented last.
HeldTokens ==
    IF resp.op = "login" /\ resp.status = HTTP_200_OK
    THEN {t.access_token : t \in resp.body}
    ELSE IF resp.op = "get_current_user_profile"
    THEN {resp.payload.vals["token"]}
    ELSE {}

\* The forms of POST /token: two users with their passwords, a wrong one.
TokenLogins ==
    {<<"alice", "pw-alice">>, <<"erin", "pw-erin">>, <<"alice", "pw-wrong!">>}

NextToken ==
    \/ Tick
    \/ \E f \in TokenLogins : login_for_access_token(f[1], f[2])
    \/ \E t \in HeldTokens \cup BadTokens : get_current_user_profile(t)

SpecToken == Init /\ [][NextToken]_vars

\* Tokens POST /token can have issued by now.
IssuedTokens ==
    {[sub |-> f[1], exp |-> t + ACCESS_TOKEN_EXPIRE_MINUTES, key |-> SECRET_KEY] :
        f \in {g \in TokenLogins :
                  \E u \in UserByName(g[1]) :
                      /\ verify_password(g[2], users[u].hashed_password)
                      /\ users[u].is_active},
        t \in 0..now}

\* The token validates to its subject.
Valid(t) ==
    /\ get_current_user(t).status = HTTP_200_OK
    /\ users[get_current_user(t).user].username = t.sub

\* C12 (a step that leaves the clock alone is a request): a token
\* POST /token issued, presented strictly before its expiry
\* instant, is accepted as the user it was issued to; presented after the
\* lifetime has elapsed it is answered 401; and a token that has stopped
\* validating never validates again.
C12_TokenLifetime ==
    /\ [][(/\ now' = now
           /\ resp'.op = "get_current_user_profile"
           /\ resp'.payload.vals["token"] \in IssuedTokens)
          => LET t == resp'.payload.vals["token"] IN
             /\ now < t.exp =>
                   /\ resp'.status = HTTP_200_OK
                   /\ \A u \in resp'.body : u.username = t.sub
                   /\ resp'.body # NoBody
             /\ now > t.exp =>
                   /\ resp'.status = HTTP_401_UNAUTHORIZED
                   /\ resp'.body = NoBody]_vars
    /\ [][\A t \in IssuedTokens : ~Valid(t) => ~Valid(t)']_vars

\* C12 witness: a token issued by a login was presented after its expiry
\* instant and answered 401.
C12_Witness ==
    /\ resp.op = "get_current_user_profile"
    /\ resp.status = HTTP_401_UNAUTHORIZED
    /\ resp.payload.vals["token"] \in IssuedTokens
    /\ now > resp.payload.vals["token"].exp

\* ---------------------------------------------- SpecStartup: process start
\* The environment the process is started in: SECRET_KEY set, empty, or
\* not set at all (os.environ.get("SECRET_KEY", "") reads both as "").
Environments ==
    {[SECRET_KEY |-> SECRET_KEY], [SECRET_KEY |-> ""], [SECRET_KEY |-> NoneStr]}

\* Settings(): the class attributes read the environment; validate() is
\* defined on the class and called by nothing under src/.
get_settings(env) ==
    [SECRET_KEY |-> IF env.SECRET_KEY = NoneStr THEN "" ELSE env.SECRET_KEY,
     ACCESS_TOKEN_EXPIRE_MINUTES |-> ACCESS_TOKEN_EXPIRE_MINUTES]

InitStartup ==
    /\ users = SeedUsers
    /\ organizations = SeedOrganizations
    /\ companies = SeedCompanies
    /\ mandates = EmptyTable
    /\ deals = EmptyTable
    /\ tasks = EmptyTable
    /\ documents = EmptyTable
    /\ ic_workflows = EmptyTable
    /\ intelligence = EmptyTable
    /\ seq = SeedSeq
    /\ now = 0
    /\ resp = Response("startup", None, None, EmptyBody, HTTP_200_OK, NoBody)
    /\ \E env \in Environments :
          proc = [Serving(env) EXCEPT !.pc = "import auth"]

\* Faulty variant of auth_module_load: the key is read without a test.
auth_module_load_Unchecked ==
    /\ proc.pc = "import auth"
    /\ proc' = [proc EXCEPT !.pc = "import main"]
    /\ UNCHANGED <<tables, seq, now, resp>>

\* from auth import ...: the module loads the signing key from the
\* settings and the import fails when there is none.
auth_module_load ==
    /\ proc.pc = "import auth"
    /\ proc' = [proc EXCEPT !.pc = IF get_settings(proc.env).SECRET_KEY = ""
                                   THEN "failed" ELSE "import main"]
    /\ UNCHANGED <<tables, seq, now, resp>>

\* app = FastAPI(...); settings = get_settings(); app.add_middleware(...)
main_module_load ==
    /\ proc.pc = "import main"
    /\ proc' = [proc EXCEPT !.pc = "lifespan"]
    /\ UNCHANGED <<tables, seq, now, resp>>

\* lifespan, before the yield: create_db_and_tables(), which raises when
\* the storage cannot be reached.
lifespan ==
    /\ proc.pc = "lifespan"
    /\ \E reachable \in BOOLEAN :
          proc' = [proc EXCEPT !.pc = IF reachable THEN "serving" ELSE "failed"]
    /\ UNCHANGED <<tables, seq, now, resp>>

\* A request is handled: only a process that has started handles any.
serve ==
    /\ proc.pc = "serving"
    /\ NextAdmin

NextStartup ==
    \/ auth_module_load
    \/ main_module_load
    \/ lifespan
    \/ serve

SpecStartup == InitStartup /\ [][NextStartup]_vars

NextErrors ==
    \/ \E t \in BadTokens : auth_failure(t)
    \/ \E t \in ChildClients : create_deal(t, DealBody)
    \/ \E t \in ChildClients, id \in Ids, b \in DealUpdateBodies :
          update_deal(t, id, b)
    \/ \E t \in ChildClients, b \in IntelligenceBodies : create_intelligence(t, b)
    \/ \E t \in ChildClients, b \in OrganizationBodies : create_organization(t, b)

SpecErrors == Init /\ [][NextErrors]_vars

ErrorStatuses ==
    {HTTP_400_BAD_REQUEST, HTTP_401_UNAUTHORIZED, HTTP_403_FORBIDDEN,
     HTTP_404_NOT_FOUND, HTTP_422_UNPROCESSABLE}

\* C14: a request answered 400, 401, 403, 404 or 422 leaves every table
\* as it was and answers with no record.
C14_ErrorsChangeNothing ==
    [][resp'.status \in ErrorStatuses =>
          /\ tables' = tables
          /\ resp'.body = NoBody]_vars

\* C14 witness: an update with a well-formed body that names a stored deal
\* of another organization was answered 404 and the deal still has the
\* description it was created with.
C14_Witness ==
    /\ resp.op = "update_deal"
    /\ resp.status = HTTP_404_NOT_FOUND
    /\ DealUpdate_valid(resp.payload)
    /\ resp.id \in DOMAIN deals
    /\ deals[resp.id].description = "d1"
    /\ resp.payload.vals["description"] # deals[resp.id].description

\* ------------------------------------------------- SpecDelete: deletions
NextDelete ==
    \/ \E t \in ChildClients : create_deal(t, DealBody)
    \/ \E t \in ChildClients : list_deals(t)
    \/ \E t \in ChildClients, id \in Ids : get_deal(t, id)
    \/ \E t \in ChildClients, id \in Ids : delete_deal(t, id)
    \/ \E t \in ChildClients, b \in ICWorkflowBodies : create_ic_workflow(t, b)
    \/ \E t \in ChildClients : list_ic_workflows(t)
    \/ \E t \in ChildClients, id \in Ids : delete_ic_workflow(t, id)
    \/ \E t \in ChildClients, b \in IntelligenceBodies : create_intelligence(t, b)
    \/ \E t \in ChildClients : list_intelligence(t)
    \/ \E t \in ChildClients, id \in Ids : delete_intelligence(t, id)

SpecDelete == Init /\ [][NextDelete]_vars

\* The delete removed row id of the table and no other row.
RemovedOnly(before, after, id) ==
    /\ id \in DOMAIN before
    /\ DOMAIN after = DOMAIN before \ {id}
    /\ \A k \in DOMAIN after : after[k] = before[k]

\* An id the sequence has handed out whose row is gone stays gone.
StaysRemoved(before, after, last) ==
    \A id \in 1..last : id \notin DOMAIN before => id \notin DOMAIN after

\* C15: a successful delete_deal, delete_ic_workflow or delete_intelligence
\* removes the row it names and no other row of that table; a row that is
\* gone never comes back, whatever is created later; get_deal on its id
\* answers 404 to every caller and no list answers with a row that is not
\* stored.
C15_DeleteIsPermanent ==
    [][/\ (resp'.op = "delete_deal" /\ resp'.status = HTTP_200_OK) =>
             RemovedOnly(deals, deals', resp'.id)
       /\ (resp'.op = "delete_ic_workflow" /\ resp'.status = HTTP_200_OK) =>
             RemovedOnly(ic_workflows, ic_workflows', resp'.id)
       /\ (resp'.op = "delete_intelligence" /\ resp'.status = HTTP_200_OK) =>
             RemovedOnly(intelligence, intelligence', resp'.id)
       /\ StaysRemoved(deals, deals', seq.deals)
       /\ StaysRemoved(ic_workflows, ic_workflows', seq.ic_workflows)
       /\ StaysRemoved(intelligence, intelligence', seq.intelligence)
       /\ (resp'.op = "get_deal" /\ resp'.id \notin DOMAIN deals') =>
             resp'.status = HTTP_404_NOT_FOUND
       /\ resp'.op = "list_deals" => resp'.body \subseteq Rows(deals')
       /\ resp'.op = "list_ic_workflows" =>
             resp'.body \subseteq Rows(ic_workflows')
       /\ resp'.op = "list_intelligence" =>
             resp'.body \subseteq Rows(intelligence')]_vars

\* C15 witness: a deal was deleted, another was created after it, and
\* get_deal on the deleted id was answered 404.
C15_Witness ==
    /\ resp.op = "get_deal"
    /\ resp.status = HTTP_404_NOT_FOUND
    /\ resp.id < seq.deals
    /\ resp.id \notin DOMAIN deals
    /\ seq.deals \in DOMAIN deals

\* ---------------------------------------------------- SpecMemo: IC memos
NextMemo ==
    \/ \E t \in ChildClients, b \in MandateBodies : create_mandate(t, b)
    \/ \E t \in ChildClients, b \in DealBodies : create_deal(t, b)
    \/ \E t \in ChildClients, id \in Ids, b \in DealUpdateBodies :
          update_deal(t, id, b)
    \/ \E t \in ChildClients, id \in Ids : generate_ic_memo(t, id)

SpecMemo == Init /\ [][NextMemo]_vars

\* C16: generate_ic_memo on a stored deal of the caller's organization
\* answers 200, with or without a mandate and a company, with one memo
\* whose business_model is the deal's description as stored now, whose
\* thesis_fit interpolates 'N/A' when the deal has no mandate and whose
\* market interpolates the deal's company_name when it has no company; on
\* any other deal id it answers 404; it changes no table.
C16_MemoFromDeal ==
    [][resp'.op = "generate_ic_memo" =>
          /\ tables' = tables
          /\ IF InScope(resp'.id, ActorOrg(resp'))
             THEN LET deal == deals[resp'.id] IN
                  /\ resp'.status = HTTP_200_OK
                  /\ Cardinality(resp'.body) = 1
                  /\ \A m \in resp'.body :
                        /\ m.business_model = deal.description
                        /\ deal.mandate_id = None =>
                              m.thesis_fit =
                                 <<"Based on mandate scope: ", "N/A">>
                        /\ deal.company_id = None =>
                              m.market = <<"Sector: ", deal.company_name>>
             ELSE /\ resp'.status = HTTP_404_NOT_FOUND
                  /\ resp'.body = NoBody]_vars

\* C16 witness: a memo was answered for a deal without mandate and
\* company whose description an update had changed.
C16_Witness ==
    /\ resp.op = "generate_ic_memo"
    /\ resp.status = HTTP_200_OK
    /\ deals[resp.id].mandate_id = None
    /\ deals[resp.id].company_id = None
    /\ deals[resp.id].description = "d2"
    /\ \A m \in resp.body : m.business_model = "d2"

\* ------------------------------------- SpecTenant: a deal's organization
\* Bodies of PUT /deals/{deal_id} that name an organization, an owner, or
\* send an explicit null for the organization.
TenantUpdateBodies ==
    {Body([description |-> "d2", organization_id |-> 2, owner_id |-> 2]),
     BodyN([description |-> "d2"], {"organization_id"})}

NextTenant ==
    \/ \E t \in Clients, b \in DealBodies : create_deal(t, b)
    \/ \E t \in Clients, id \in Ids, b \in TenantUpdateBodies :
          update_deal(t, id, b)
    \/ \E t \in Clients, id \in Ids : get_deal(t, id)
    \/ \E t \in Clients, id \in Ids : delete_deal(t, id)

SpecTenant == Init /\ [][NextTenant]_vars

\* C17: create_deal stores the caller's organization_id, whatever the
\* body names, and no step changes the organization_id of a stored deal.
C17_DealOrganizationFixed ==
    [][/\ (resp'.op = "create_deal" /\ resp'.status = HTTP_200_OK) =>
             /\ resp'.id \notin DOMAIN deals
             /\ deals'[resp'.id].organization_id = ActorOrg(resp')
       /\ \A id \in DOMAIN deals \cap DOMAIN deals' :
             deals'[id].organization_id = deals[id].organization_id]_vars

\* C17 witness: an update whose body names organization 2 succeeded on a
\* deal of organization 1, and the deal is still of organization 1.
C17_Witness ==
    /\ resp.op = "update_deal"
    /\ resp.status = HTTP_200_OK
    /\ "organization_id" \in DOMAIN resp.payload.vals
    /\ resp.payload.vals["organization_id"] # deals[resp.id].organization_id
    /\ deals[resp.id].description = "d2"

\* ------------------------------------- SpecSession: get_session per request
\* The session of request r moves to pc, with the calls made on it added
\* to its log.
Session(r, pc, calls, raised) ==
    /\ proc' = [proc EXCEPT !.sessions[r] =
                   [pc |-> pc, log |-> proc.sessions[r].log \o calls,
                    raised |-> raised]]
    /\ UNCHANGED <<tables, seq, now, resp>>

\* with Session(engine) as session: try: yield session
get_session_yield(r) ==
    /\ proc.pc = "serving"
    /\ proc.sessions[r].pc = "idle"
    /\ Session(r, "yielded", <<"open">>, FALSE)

\* The handler returns: the generator resumes after the yield.
handler_returns(r) ==
    /\ proc.sessions[r].pc = "yielded"
    /\ Session(r, "finally", <<>>, FALSE)

\* The handler raises: the exception is thrown into the generator at the
\* yield.
handler_raises(r) ==
    /\ proc.sessions[r].pc = "yielded"
    /\ Session(r, "except", <<>>, TRUE)

\* Faulty variant of get_session_except: the except clause only re-raises.
get_session_except_NoRollback(r) ==
    /\ proc.sessions[r].pc = "except"
    /\ Session(r, "finally", <<>>, TRUE)

\* except Exception: session.rollback(); raise
get_session_except(r) ==
    /\ proc.sessions[r].pc = "except"
    /\ Session(r, "finally", <<"rollback">>, TRUE)

\* finally: session.close()
get_session_finally(r) ==
    /\ proc.sessions[r].pc = "finally"
    /\ Session(r, "exit", <<"close">>, proc.sessions[r].raised)

\* Leaving the with block: Session.__exit__ closes again; the exception,
\* if any, goes on to the caller and the request is finished.
get_session_exit(r) ==
    /\ proc.sessions[r].pc = "exit"
    /\ Session(r, IF proc.sessions[r].raised THEN "raised" ELSE "returned",
               <<"close">>, proc.sessions[r].raised)

\* The worker takes the next request.
next_request(r) ==
    /\ proc.sessions[r].pc \in {"raised", "returned"}
    /\ proc' = [proc EXCEPT !.sessions[r] = NoSession]
    /\ UNCHANGED <<tables, seq, now, resp>>

\* The steps get_session takes by itself once the handler is done.
Release(r) ==
    get_session_except(r) \/ get_session_finally(r) \/ get_session_exit(r)

NextSession ==
    \/ \E r \in RequestIds : get_session_yield(r)
    \/ \E r \in RequestIds : handler_returns(r)
    \/ \E r \in RequestIds : handler_raises(r)
    \/ \E r \in RequestIds : get_session_except(r)
    \/ \E r \in RequestIds : get_session_finally(r)
    \/ \E r \in RequestIds : get_session_exit(r)
    \/ \E r \in RequestIds : next_request(r)

\* The generator runs to its end once the handler is done: nothing in the
\* except and finally clauses waits.
SpecSession ==
    /\ Init
    /\ [][NextSession]_vars
    /\ \A r \in RequestIds : WF_vars(Release(r))

\* The session of request r has been closed.
Closed(r) ==
    \E i \in DOMAIN proc.sessions[r].log : proc.sessions[r].log[i] = "close"

\* The session of request r is open: yielded and not yet closed.
Open(r) == proc.sessions[r].pc # "idle" /\ ~Closed(r)

\* C18: once the handler of a request has returned or raised, its session
\* is eventually closed; a finished request has a closed session; when the
\* handler raised, the session was rolled back before it was closed and
\* the request ends with the exception; when it returned, nothing was
\* rolled back.
C18_SessionReleased ==
    /\ \A r \in RequestIds :
          (proc.sessions[r].pc \in {"except", "finally"}) ~> Closed(r)
    /\ [](\A r \in RequestIds :
             LET s == proc.sessions[r] IN
             /\ s.pc \in {"raised", "returned"} => ~Open(r)
             /\ s.pc = "raised" <=> (s.pc \in {"raised", "returned"} /\ s.raised)
             /\ (Closed(r) /\ s.raised) =>
                   s.log \in {<<"open", "rollback", "close">>,
                              <<"open", "rollback", "close", "close">>}
             /\ (Closed(r) /\ ~s.raised) =>
                   s.log \in {<<"open", "close">>, <<"open", "close", "close">>})

\* C18 witness: a request whose handler raised has finished: its session
\* was rolled back, then closed, while another request's session is open.
C18_Witness ==
    \E r, q \in RequestIds :
        /\ proc.sessions[r].pc = "raised"
        /\ proc.sessions[r].log = <<"open", "rollback", "close", "close">>
        /\ Open(q)

\* --------------------------------------- SpecRanges: field constraints
\* Bodies at and beyond the limits of each constrained field.
RangeMandateBodies ==
    {Body([type |-> "trading", confidence_score |-> "C"]),
     Body([type |-> "hostile", confidence_score |-> "A"]),
     Body([type |-> "buy-side", confidence_score |-> "D"])}

RangeDealBodies ==
    {Body([company_name |-> "TargetCo", description |-> "d1"]),
     Body([company_name |-> "TargetCo", description |-> "d1",
           quality_score |-> 0]),
     Body([company_name |-> "TargetCo", description |-> "d1",
           quality_score |-> 101])}

RangeDealUpdateBodies ==
    {Body([quality_score |-> 100]),
     Body([quality_score |-> 101]),
     BodyN([description |-> "d2"], {"quality_score"})}

RangeTaskUpdateBodies ==
    {Body([status |-> "In Progress"]),
     Body([status |-> "Done"]),
     BodyN([description |-> "t2"], {"status"})}

RangeDocumentBodies ==
    {Body([name |-> "nda.pdf", path |-> "s3://room/nda.pdf", version |-> 1]),
     Body([name |-> "nda.pdf", path |-> "s3://room/nda.pdf", version |-> 0])}

NextRanges ==
    \/ \E t \in UpdClients, b \in RangeMandateBodies : create_mandate(t, b)
    \/ \E t \in UpdClients, b \in RangeDealBodies : create_deal(t, b)
    \/ \E t \in UpdClients, id \in Ids, b \in RangeDealUpdateBodies :
          update_deal(t, id, b)
    \/ \E t \in UpdClients, id \in Ids, b \in TaskBodies : create_task(t, id, b)
    \/ \E t \in UpdClients, id \in Ids, b \in RangeTaskUpdateBodies :
          update_task(t, id, b)
    \/ \E t \in UpdClients, id \in Ids, b \in RangeDocumentBodies :
          create_document(t, id, b)

SpecRanges == Init /\ [][NextRanges]_vars

\* Every stored row is within the ranges of its constrained fields.
FieldRanges ==
    /\ \A d \in Rows(deals) :
          d.quality_score = None \/ d.quality_score \in 0..100
    /\ \A m \in Rows(mandates) :
          /\ m.type \in {"buy-side", "sell-side", "trading"}
          /\ m.confidence_score \in {"A", "B", "C"}
    /\ \A t \in Rows(tasks) : t.status \in {"Pending", "In Progress", "Completed"}
    /\ \A d \in Rows(documents) : d.version >= 1

\* The body of the request sends a value outside the range of a field.
OutOfRange(r) ==
    LET v == r.payload.vals
        Has(f) == f \in DOMAIN v
    IN  CASE r.op \in {"create_deal", "update_deal"} ->
                Has("quality_score") /\ v["quality_score"] \notin 0..100
          [] r.op = "create_mandate" ->
                \/ Has("type") /\ v["type"] \notin {"buy-side", "sell-side", "trading"}
                \/ Has("confidence_score") /\ v["confidence_score"] \notin {"A", "B", "C"}
          [] r.op \in {"create_task", "update_task"} ->
                Has("status") /\ v["status"] \notin {"Pending", "In Progress", "Completed"}
          [] r.op = "create_document" ->
                Has("version") /\ v["version"] < 1
          [] OTHER -> FALSE

\* C19: every stored deal, mandate, task and document is within its field
\* ranges in every reachable state, and a create or update whose body
\* sends a value outside a range is answered 422.
C19_FieldRanges ==
    /\ []FieldRanges
    /\ [][OutOfRange(resp') =>
             /\ resp'.status = HTTP_422_UNPROCESSABLE
             /\ tables' = tables]_vars

\* C19 witness: a deal stored with quality_score 100 was sent an update
\* with quality_score 101, which was answered 422.
C19_Witness ==
    /\ resp.op = "update_deal"
    /\ resp.status = HTTP_422_UNPROCESSABLE
    /\ resp.id \in DOMAIN deals
    /\ deals[resp.id].quality_score = 100
    /\ resp.payload.vals["quality_score"] > 100

\* C20 (as claimed): the mandate scope a memo interpolates into thesis_fit
\* is that of a mandate of the caller's organization: a memo answered for
\* a deal whose mandate_id names a mandate of another organization does
\* not carry that mandate's scope.
C20_MemoMandateOfOwnOrg ==
    (resp.op = "generate_ic_memo" /\ resp.status = HTTP_200_OK) =>
        \A m \in resp.body, k \in DOMAIN mandates :
            (/\ resp.id \in DOMAIN deals
             /\ deals[resp.id].mandate_id = k
             /\ mandates[k].organization_id # ActorOrg(resp))
            => m.thesis_fit # <<"Based on mandate scope: ", mandates[k].scope>>

\* ------------------------- SpecOrgless: callers that have no organization
\* One client of organization 1 and the two users whose organization_id
\* is unset (carol, a Member, and dave, a Viewer).
OrglessClients == {Alice, Carol, Dave}

NextOrgless ==
    \/ \E t \in OrglessClients, b \in MandateBodies : create_mandate(t, b)
    \/ \E t \in OrglessClients : list_mandates(t)
    \/ \E t \in OrglessClients, id \in Ids : get_mandate(t, id)
    \/ \E t \in OrglessClients, b \in DealBodies : create_deal(t, b)
    \/ \E t \in OrglessClients : list_deals(t)
    \/ \E t \in OrglessClients, id \in Ids : get_deal(t, id)
    \/ \E t \in OrglessClients, id \in Ids, b \in DealUpdateBodies :
          update_deal(t, id, b)
    \/ \E t \in OrglessClients, id \in Ids : delete_deal(t, id)

SpecOrgless == Init /\ [][NextOrgless]_vars

\* The caller of request r may see a record of organization org made by
\* user maker: the caller belongs to an organization and it is the
\* record's, or the caller made the record.
VisibleTo(r, org, maker) ==
    \/ ActorOrg(r) # None /\ org = ActorOrg(r)
    \/ maker = r.actor

\* C21 (as claimed): a deal or mandate is returned by get or list, or
\* changed by update or delete, only for a caller who belongs to an
\* organization that is the record's (or who made the record): a record
\* made by a user with no organization is never returned to or changed by
\* another user, one with no organization included.
C21_OrglessRecordsPrivate ==
    [][/\ (/\ resp'.op \in {"get_deal", "update_deal", "delete_deal"}
           /\ resp'.status = HTTP_200_OK)
          => VisibleTo(resp', deals[resp'.id].organization_id,
                       deals[resp'.id].owner_id)
       /\ resp'.op = "list_deals"
          => \A d \in resp'.body :
                VisibleTo(resp', d.organization_id, d.owner_id)
       /\ (resp'.op = "get_mandate" /\ resp'.status = HTTP_200_OK)
          => VisibleTo(resp', mandates[resp'.id].organization_id,
                       mandates[resp'.id].created_by_id)
       /\ resp'.op = "list_mandates"
          => \A m \in resp'.body :
                VisibleTo(resp', m.organization_id, m.created_by_id)]_vars

\* ----------------------------- SpecRace: create requests that interleave
\* Each request runs in its own thread with its own session: the handler's
\* lookup and its commit are two steps, and the steps of other requests
\* can fall between them. A lookup sees the committed rows only.
\* Bodies that ask for the same organization name, the same company name,
\* the same username and the same email.
RaceOrganizationBodies ==
    {Body([name |-> "Gamma", type |-> "LP"]),
     Body([name |-> "Gamma", type |-> "SCP"])}

RaceCompanyBodies ==
    {Body([name |-> "Gamma", sector |-> "Energy"]),
     Body([name |-> "Gamma", sector |-> "Tech"])}

RaceUserBodies ==
    {Body([username |-> "gina", email |-> "gina@kazi.io",
           password |-> "pw-gina1"]),
     Body([username |-> "gina", email |-> "g2@kazi.io",
           password |-> "pw-gina1"]),
     Body([username |-> "henry", email |-> "gina@kazi.io",
           password |-> "pw-gina1"])}

\* An Owner and a Member.
RaceClients == {Alice, Bob}

\* The handler of request r has passed its lookup and holds the body it
\* is about to add and commit.
Pending(op, actor, payload) ==
    [pc |-> "pending", log |-> <<"open">>, raised |-> FALSE,
     op |-> op, actor |-> actor, payload |-> payload]

\* The dependencies, the body validation and the handler up to its
\* `if existing:` test, for request r: refused is the status the request
\* is refused with, or HTTP_200_OK when the handler goes on to
\* session.add.
lookup(r, op, actor, payload, refused) ==
    /\ proc.pc = "serving"
    /\ proc.sessions[r].pc = "idle"
    /\ IF refused # HTTP_200_OK
       THEN /\ resp' = HTTPException(op, actor, None, payload, refused)
            /\ UNCHANGED <<tables, seq, now, proc>>
       ELSE /\ proc' = [proc EXCEPT !.sessions[r] = Pending(op, actor, payload)]
            /\ UNCHANGED <<tables, seq, now, resp>>

create_organization_lookup(r, token, org) ==
    /\ get_current_user(token).status = HTTP_200_OK
    /\ LET admin == get_current_active_admin(token) IN
       lookup(r, "create_organization", admin.user, org,
              IF admin.status # HTTP_200_OK THEN admin.status
              ELSE IF ~OrganizationCreate_valid(org) THEN HTTP_422_UNPROCESSABLE
              ELSE IF ExistingOrganization(org) # {} THEN HTTP_400_BAD_REQUEST
              ELSE HTTP_200_OK)

create_company_lookup(r, token, company) ==
    /\ get_current_user(token).status = HTTP_200_OK
    /\ lookup(r, "create_company", get_current_user(token).user, company,
              IF ~CompanyCreate_valid(company) THEN HTTP_422_UNPROCESSABLE
              ELSE IF ExistingCompany(company) # {} THEN HTTP_400_BAD_REQUEST
              ELSE HTTP_200_OK)

create_user_lookup(r, token, user) ==
    /\ get_current_user(token).status = HTTP_200_OK
    /\ LET admin == get_current_active_admin(token) IN
       lookup(r, "create_user", admin.user, user,
              IF admin.status # HTTP_200_OK THEN admin.status
              ELSE IF ~UserCreate_valid(user) THEN HTTP_422_UNPROCESSABLE
              ELSE IF ExistingUser(UserCreate_dump(user)) # {}
                   THEN HTTP_400_BAD_REQUEST
              ELSE HTTP_200_OK)

\* session.add(row); session.commit() of request r on a table with a
\* unique index: the sequence gives the next id; when a committed row
\* already holds the key (or a foreign key names no row) the INSERT
\* raises IntegrityError, which no handler catches: get_session rolls
\* back and the request is answered 500. Otherwise the row is stored.
commit(r, id, violates, body) ==
    LET q == proc.sessions[r] IN
    /\ resp' = IF violates
               THEN HTTPException(q.op, q.actor, None, q.payload,
                                  HTTP_500_SERVER_ERROR)
               ELSE Response(q.op, q.actor, id, q.payload, HTTP_200_OK, body)
    /\ proc' = [proc EXCEPT !.sessions[r] = NoSession]
    /\ now' = now

create_organization_commit(r) ==
    /\ proc.sessions[r].pc = "pending"
    /\ proc.sessions[r].op = "create_organization"
    /\ InsertsLeft
    /\ LET org == proc.sessions[r].payload
           id == seq.organizations + 1
           db_org == Organization(org, id)
           violates == ExistingOrganization(org) # {}
       IN  /\ seq' = [seq EXCEPT !.organizations = id]
           /\ organizations' = IF violates THEN organizations
                               ELSE Insert(organizations, id, db_org)
           /\ commit(r, id, violates, {db_org})
           /\ UNCHANGED <<users, companies, mandates, deals, tasks,
                          documents, ic_workflows, intelligence>>

create_company_commit(r) ==
    /\ proc.sessions[r].pc = "pending"
    /\ proc.sessions[r].op = "create_company"
    /\ InsertsLeft
    /\ LET company == proc.sessions[r].payload
           id == seq.companies + 1
           db_company == Company(company, id)
           violates == ExistingCompany(company) # {}
       IN  /\ seq' = [seq EXCEPT !.companies = id]
           /\ companies' = IF violates THEN companies
                           ELSE Insert(companies, id, db_company)
           /\ commit(r, id, violates, {db_company})
           /\ UNCHANGED <<users, organizations, mandates, deals, tasks,
                          documents, ic_workflows, intelligence>>

create_user_commit(r) ==
    /\ proc.sessions[r].pc = "pending"
    /\ proc.sessions[r].op = "create_user"
    /\ InsertsLeft
    /\ LET user == proc.sessions[r].payload
           id == seq.users + 1
           db_user == User(UserCreate_dump(user), id)
           violates == \/ ExistingUser(UserCreate_dump(user)) # {}
                       \/ ~FK(db_user.organization_id, organizations)
       IN  /\ seq' = [seq EXCEPT !.users = id]
           /\ users' = IF violates THEN users ELSE Insert(users, id, db_user)
           /\ commit(r, id, violates, {UserResponse(db_user)})
           /\ UNCHANGED <<organizations, companies, mandates, deals, tasks,
                          documents, ic_workflows, intelligence>>

NextRace ==
    \/ \E r \in RequestIds, t \in RaceClients, b \in RaceOrganizationBodies :
          create_organization_lookup(r, t, b)
    \/ \E r \in RequestIds : create_organization_commit(r)
    \/ \E r \in RequestIds, t \in RaceClients, b \in RaceCompanyBodies :
          create_company_lookup(r, t, b)
    \/ \E r \in RequestIds : create_company_commit(r)
    \/ \E r \in RequestIds, t \in RaceClients, b \in RaceUserBodies :
          create_user_lookup(r, t, b)
    \/ \E r \in RequestIds : create_user_commit(r)

SpecRace == Init /\ [][NextRace]_vars

\* Request r commits in this step.
Commits(r) == proc.sessions[r].pc = "pending" /\ proc'.sessions[r].pc = "idle"

\* The key of the body that request r is about to commit is held by a
\* stored row: another request committed it after r's lookup.
KeyTaken(r) ==
    LET q == proc.sessions[r] IN
    \/ q.op = "create_organization" /\ ExistingOrganization(q.payload) # {}
    \/ q.op = "create_company" /\ ExistingCompany(q.payload) # {}
    \/ q.op = "create_user" /\ ExistingUser(UserCreate_dump(q.payload)) # {}

\* No two rows of the table agree on the column.
UniqueColumn(table, column) ==
    \A i, j \in DOMAIN table : table[i][column] = table[j][column] => i = j

\* C22 (as claimed): when create requests for the same key interleave,
\* each doing its lookup before either commits, the one that commits
\* first succeeds with 200, every later one is answered 400 (Conflict),
\* never an unhandled storage error, and leaves storage as it was; no
\* two stored rows ever hold the same organization name, company name,
\* username or email.
C22_RacingCreatesConflict ==
    [][/\ \A r \in RequestIds : Commits(r) =>
             IF KeyTaken(r)
             THEN resp'.status = HTTP_400_BAD_REQUEST /\ tables' = tables
             ELSE resp'.status = HTTP_200_OK
       /\ UniqueColumn(organizations', "name")
       /\ UniqueColumn(companies', "name")
       /\ UniqueColumn(users', "username")
       /\ UniqueColumn(users', "email")]_vars

\* --------------------------- SpecEngine: the module's engine and tunnel
\* database.py keeps one engine and one tunnel in module globals, set on
\* first use. Its callers (get_session, once per request, in the worker
\* threads; create_db_and_tables and close_connections from lifespan)
\* are threads that read and write the globals without a lock, so every
\* read and every write of a global is a step of its own.
\* Engines and tunnels the process makes in one run.
MaxHandles == 3

\* Caller r of get_engine at pc, holding the engine it was returned.
Caller(pc, engine) ==
    [pc |-> pc, log |-> <<>>, raised |-> FALSE, engine |-> engine]

\* The module after import: _engine = None, _tunnel = None; no engine
\* made, no tunnel started. The settings ask for the SSH tunnel or give
\* the database address.
Imported(use_ssh_tunnel) ==
    [pc |-> "serving", env |-> [SECRET_KEY |-> SECRET_KEY],
     sessions |-> [r \in RequestIds |-> NoSession],
     settings |-> [use_ssh_tunnel |-> use_ssh_tunnel],
     engine |-> None, tunnel |-> None,
     pool |-> {}, active |-> {},
     made |-> 0, started |-> 0,
     since |-> [engines |-> 0, tunnels |-> 0],
     closing |-> "idle"]

InitEngine ==
    /\ users = SeedUsers
    /\ organizations = SeedOrganizations
    /\ companies = SeedCompanies
    /\ mandates = EmptyTable
    /\ deals = EmptyTable
    /\ tasks = EmptyTable
    /\ documents = EmptyTable
    /\ ic_workflows = EmptyTable
    /\ intelligence = EmptyTable
    /\ seq = SeedSeq
    /\ now = 0
    /\ resp = Response("startup", None, None, EmptyBody, HTTP_200_OK, NoBody)
    /\ \E use_ssh_tunnel \in BOOLEAN : proc = Imported(use_ssh_tunnel)

\* Caller r moves to pc holding engine; p is the process after the step.
Step(r, pc, engine, p) ==
    /\ proc' = [p EXCEPT !.sessions[r] = Caller(pc, engine)]
    /\ UNCHANGED <<tables, seq, now, resp>>

\* engine = get_engine(): if _engine is None
get_engine_test(r) ==
    /\ proc.sessions[r].pc = "idle"
    /\ Step(r, IF proc.engine = None THEN "url" ELSE "return", None, proc)

\* _get_database_url: if settings.use_ssh_tunnel:
\*     if _tunnel is None or not _tunnel.is_active
get_database_url(r) ==
    /\ proc.sessions[r].pc = "url"
    /\ Step(r, IF /\ proc.settings.use_ssh_tunnel
                  /\ (proc.tunnel = None \/ proc.tunnel \notin proc.active)
               THEN "tunnel" ELSE "create", None, proc)

\* _tunnel = _create_ssh_tunnel(): a new forwarder is started and stored.
create_ssh_tunnel(r) ==
    /\ proc.sessions[r].pc = "tunnel"
    /\ proc.started < MaxHandles
    /\ LET t == proc.started + 1 IN
       Step(r, "create", None,
            [proc EXCEPT !.tunnel = t, !.active = @ \cup {t}, !.started = t,
                         !.since.tunnels = @ + 1])

\* _engine = create_engine(database_url, ...): a new engine is stored.
create_engine(r) ==
    /\ proc.sessions[r].pc = "create"
    /\ proc.made < MaxHandles
    /\ LET e == proc.made + 1 IN
       Step(r, "return", None,
            [proc EXCEPT !.engine = e, !.pool = @ \cup {e}, !.made = e,
                         !.since.engines = @ + 1])

\* return _engine: the caller gets what the global holds now.
get_engine_return(r) ==
    /\ proc.sessions[r].pc = "return"
    /\ Step(r, "engine", proc.engine, proc)

\* The caller is done with its engine: the session is closed, or
\* create_all has returned.
caller_returns(r) ==
    /\ proc.sessions[r].pc = "engine"
    /\ proc' = [proc EXCEPT !.sessions[r] = NoSession]
    /\ UNCHANGED <<tables, seq, now, resp>>

\* close_connections: if _engine is not None: _engine.dispose();
\* _engine = None
close_engine ==
    /\ proc.closing = "idle"
    /\ proc' = [proc EXCEPT !.pool = @ \ {proc.engine}, !.engine = None,
                            !.since = [engines |-> 0, tunnels |-> 0],
                            !.closing = "tunnel"]
    /\ UNCHANGED <<tables, seq, now, resp>>

\* close_connections: if _tunnel is not None and _tunnel.is_active:
\* _tunnel.stop(); _tunnel = None
close_tunnel ==
    /\ proc.closing = "tunnel"
    /\ proc' = IF proc.tunnel # None /\ proc.tunnel \in proc.active
               THEN [proc EXCEPT !.active = @ \ {proc.tunnel},
                                 !.tunnel = None, !.closing = "idle"]
               ELSE [proc EXCEPT !.closing = "idle"]
    /\ UNCHANGED <<tables, seq, now, resp>>

NextEngine ==
    \/ \E r \in RequestIds : get_engine_test(r)
    \/ \E r \in RequestIds : get_database_url(r)
    \/ \E r \in RequestIds : create_ssh_tunnel(r)
    \/ \E r \in RequestIds : create_engine(r)
    \/ \E r \in RequestIds : get_engine_return(r)
    \/ \E r \in RequestIds : caller_returns(r)
    \/ close_engine
    \/ close_tunnel

SpecEngine == InitEngine /\ [][NextEngine]_vars

\* C23 (as claimed): in every interleaving of callers of get_engine and
\* close_connections the process has at most one engine that is not
\* disposed and at most one active tunnel; create_engine and the tunnel
\* start run at most once between two close_connections; a caller is
\* returned the one engine of the process; and when close_connections
\* finishes no engine and no active tunnel is left.
C23_OneEngineOneTunnel ==
    [][/\ Cardinality(proc'.pool) <= 1
       /\ Cardinality(proc'.active) <= 1
       /\ proc'.since.engines <= 1
       /\ proc'.since.tunnels <= 1
       /\ \A r \in RequestIds :
             (proc.sessions[r].pc = "return" /\ proc'.sessions[r].pc = "engine")
                => proc'.pool = {proc'.sessions[r].engine}
       /\ (proc.closing = "tunnel" /\ proc'.closing = "idle")
             => /\ proc'.engine = None /\ proc'.pool = {}
                /\ proc'.tunnel = None /\ proc'.active = {}]_vars

=============================================================================
